---- MODULE Spec2Model ----
(***************************************************************************)
(* A model of the report data pipeline of joe4455/AIJmeter: the report     *)
(* patcher, the narrative call, the report reconciler of the drivers, the  *)
(* result-log extractor, the report markup extractor, the two TPS          *)
(* computations and the TPS block of the SLA driver, the narrative         *)
(* rendering, one analysis run, the two-phase drivers, the headings of the *)
(* companion report and the report title.  Each component has its own      *)
(* variables and its own specification; a component that a specification   *)
(* does not exercise stays in its idle state.                              *)
(***************************************************************************)
EXTENDS Integers, Sequences, FiniteSets, TLC

VARIABLES
    summaryDoc,     \* patcher: content of the summary file, a sequence of markup tokens
    patchLog,       \* patcher: one record per update_original_report call, in order
    aiConfig,       \* narrative call: analyzer, selected provider, credentials
    aiPc,           \* narrative call: "ready", "loop" (inside the retry loop), "returned"
    attempt,        \* narrative call: the retry loop's index
    retry_delay,    \* narrative call: seconds the next retry waits
    aiTrace,        \* narrative call: the requests posted and the waits, in order
    aiResult,       \* narrative call: what call_ai_service handed back
    repDriver,      \* reconciler: the driver script that runs
    enhanced_module,\* reconciler: whether enhanced_html_report could be imported
    jtl_files,      \* reconciler: the result logs still to be handled, in order
    repRuns,        \* reconciler: one record per result log handled
    csvFile,        \* log extractor: the result log, [header, rows]
    csvPc,          \* log extractor: "idle", "reading" or "returned"
    csvPos,         \* log extractor: data rows read so far
    headers,        \* log extractor: the header list, <<>> while None
    line_count,     \* log extractor: header and sample lines counted
    stats,          \* log extractor: label -> aggregate
    all_timestamps, \* log extractor: the timestamps of all samples
    csvReport,      \* log extractor: what was written to index.html
    csvReturn,      \* log extractor: "none" until the function returns
    html_file,      \* markup extractor: the report page and its dashboard.js
    exPc,           \* markup extractor: "idle", "ready" or "returned"
    extracted_data, \* markup extractor: what extract_html_content returned
    exRaised,       \* markup extractor: whether the outer except was taken
    jtl_file,       \* TPS: the result log handed to calculate_tps_from_jtl
    tpsPc,          \* TPS: "idle", "ready" or "returned"
    tpsTrace,       \* TPS: the parsers tried, in order, and the unit branch taken
    tps_data,       \* TPS: the summary returned, or None
    md_lines,       \* rendering: the lines of the narrative
    mdPc,           \* rendering: "idle", "tables", "lists" or "returned"
    mdPos,          \* rendering: lines process_tables has read
    in_table,       \* rendering: process_tables is collecting a table
    table_lines,    \* rendering: the lines collected
    result,         \* rendering: what process_tables has appended
    mdHtml,         \* rendering: the markup after the list substitutions
    html_report,    \* scraping: the rendered report handed in
    htmlPc,         \* scraping: "idle", "ready" or "returned"
    html_tps,       \* scraping: the summary returned, or None
    run,            \* analysis run: the analyzer, the report name, the fault
    runPc,          \* analysis run: "idle", "start", "written", "raised" or "returned"
    ai_report,      \* analysis run: the companion report on disk
    ai_report_ret,  \* analysis run: what the writing step handed on
    jmx_files,      \* two-phase driver: the test plans in the order they are run
    phase,          \* two-phase driver: the driver, whether report_summary imports, the outcome of each plan
    phPc,           \* two-phase driver: "idle", "tests", "tested", "reports", "batch_done" or "done"
    successful_tests, \* two-phase driver: the plans judged successful, in order
    to_report,      \* two-phase driver: the plans whose result log still gets a report
    phTrace,        \* two-phase driver: tests, waits, reports and summary calls, in order
    tpsBlock,       \* TPS block: position, whether the report was written, what was added, the return value
    analysis_result,    \* headings: the narrative handed to generate_ai_report_html
    processed_analysis, \* headings: the narrative after the substitutions made so far
    headPc,         \* headings: "idle", "strip", "h3", "h4", "h5" or "headings_done"
    report_page,    \* title: the content of the report file
    titleCalls,     \* title: one record per modify_report_title call, in order
    titlePc         \* title: "idle" or "ready"

patchVars == <<summaryDoc, patchLog>>
aiVars == <<aiConfig, aiPc, attempt, retry_delay, aiTrace, aiResult>>
repVars == <<repDriver, enhanced_module, jtl_files, repRuns>>
csvVars == <<csvFile, csvPc, csvPos, headers, line_count, stats, all_timestamps,
             csvReport, csvReturn>>

exVars == <<html_file, exPc, extracted_data, exRaised>>

tpsVars == <<jtl_file, tpsPc, tpsTrace, tps_data>>

mdVars == <<md_lines, mdPc, mdPos, in_table, table_lines, result, mdHtml>>

scrapeVars == <<html_report, htmlPc, html_tps>>

runVars == <<run, runPc, ai_report, ai_report_ret>>

phaseVars == <<jmx_files, phase, phPc, successful_tests, to_report, phTrace>>

headVars == <<analysis_result, processed_analysis, headPc>>

titleVars == <<report_page, titleCalls, titlePc>>

vars == <<patchVars, aiVars, repVars, csvVars, exVars, tpsVars, mdVars, scrapeVars, runVars, tpsBlock,
          phaseVars, headVars, titleVars>>

\* What the actions of one component leave alone.
notPatch == <<aiVars, repVars, csvVars, exVars, tpsVars, mdVars, scrapeVars, runVars, tpsBlock, phaseVars, headVars, titleVars>>
notAi == <<patchVars, repVars, csvVars, exVars, tpsVars, mdVars, scrapeVars, runVars, tpsBlock, phaseVars, headVars, titleVars>>
notRep == <<patchVars, aiVars, csvVars, exVars, tpsVars, mdVars, scrapeVars, runVars, tpsBlock, phaseVars, headVars, titleVars>>
notCsv == <<patchVars, aiVars, repVars, exVars, tpsVars, mdVars, scrapeVars, runVars, tpsBlock, phaseVars, headVars, titleVars>>
notEx == <<patchVars, aiVars, repVars, csvVars, tpsVars, mdVars, scrapeVars, runVars, tpsBlock, phaseVars, headVars, titleVars>>
notTps == <<patchVars, aiVars, repVars, csvVars, exVars, mdVars, scrapeVars, runVars, tpsBlock, phaseVars, headVars, titleVars>>
notMd == <<patchVars, aiVars, repVars, csvVars, exVars, tpsVars, scrapeVars, runVars, tpsBlock, phaseVars, headVars, titleVars>>
notScrape == <<patchVars, aiVars, repVars, csvVars, exVars, tpsVars, mdVars, runVars, tpsBlock, phaseVars, headVars, titleVars>>
notRunPatch == <<aiVars, repVars, csvVars, exVars, tpsVars, mdVars, scrapeVars, tpsBlock, phaseVars, headVars, titleVars>>
notTpsPaths == <<patchVars, aiVars, repVars, csvVars, exVars, mdVars, runVars, phaseVars, headVars, titleVars>>
notHead == <<patchVars, aiVars, repVars, csvVars, exVars, tpsVars, mdVars, scrapeVars, runVars, tpsBlock, phaseVars, titleVars>>
notTitle == <<patchVars, aiVars, repVars, csvVars, exVars, tpsVars, mdVars, scrapeVars, runVars, tpsBlock, phaseVars, headVars>>
notPhase == <<patchVars, aiVars, repVars, csvVars, exVars, tpsVars, mdVars, scrapeVars, runVars, tpsBlock, headVars, titleVars>>

(***************************************************************************)
(* Bounds                                                                  *)
(***************************************************************************)
MaxFrags == 2       \* markup fragments a summary document is composed of
MaxCalls == 3       \* update_original_report calls in one behaviour
MaxJtl == 2         \* result logs one driver run handles
MaxRows == 3        \* data rows of one CSV result log
MaxPlans == 2       \* test plans in the test plan directory
MaxLabels == 2      \* rows of the Pages Overview table of one rendered report
MaxLines == 3       \* lines of one narrative
MaxSamples == 2     \* samples (XML elements or CSV rows) of one log handed to the TPS code

(***************************************************************************)
(* Sequence helpers                                                        *)
(***************************************************************************)
RECURSIVE Flatten(_)
Flatten(ss) == IF ss = <<>> THEN <<>> ELSE Head(ss) \o Flatten(Tail(ss))

SeqsUpTo(S, n) == UNION {[1..k -> S] : k \in 0..n}

(***************************************************************************)
(* REPORT PATCHER  (ai_analyze_report.py, ai_analyze_report2.py)           *)
(*                                                                         *)
(* A document is a sequence of markup tokens.  A token stands for the text *)
(* one literal piece of the two regular expressions matches, with the \s+  *)
(* and \s* inside a tag folded into the token; "ws" is a run of whitespace *)
(* between tags, "txt" any other text.  The anchor token carries its href. *)
(***************************************************************************)
Tok(kind) == [k |-> kind, h |-> ""]
Anchor(name) == [k |-> "a", h |-> name]

\* File names of companion reports, and the directories analyzer 2 joins them to.
\* They are plain names: no backslash that re.sub would read as an escape.
Names == {"p_AIReport_1.html", "p_AIReport_2.html"}
Dirs == {"reports", ""}

\* "ws*" stands for \s* between two tags; every other element is a token kind.
original_ai_pattern ==
    << "card", "ws*", "value", "ws*", "AI", "ws*", "/div", "ws*",
       "red", "ws*", "none", "ws*", "/div", "ws*", "/div" >>

\* <a\s+href=".*?" ... target="_blank">AI分析</a> : no \s* between the anchor
\* tag, the text and the closing tag.
updated_ai_pattern ==
    << "card", "ws*", "value", "ws*", "a", "AI", "/a", "ws*", "/div", "ws*",
       "grey", "ws*", "click", "ws*", "/div", "ws*", "/div" >>

\* The replacement with a fixed href, the name never interpolated.
new_ai_section_static(ai_report_name) ==
    << Tok("card"), Tok("ws"), Tok("value"), Tok("ws"),
       Anchor("AIReport.html"), Tok("AI"), Tok("/a"), Tok("ws"),
       Tok("/div"), Tok("ws"), Tok("grey"), Tok("ws"), Tok("click"), Tok("ws"),
       Tok("/div"), Tok("ws"), Tok("/div") >>

\* The f-string of the replacement: the markup is written with line breaks
\* and indentation between the tags, and none inside the anchor element.
new_ai_section(ai_report_name) ==
    << Tok("card"), Tok("ws"), Tok("value"), Tok("ws"),
       Anchor(ai_report_name), Tok("AI"), Tok("/a"), Tok("ws"),
       Tok("/div"), Tok("ws"), Tok("grey"), Tok("ws"), Tok("click"), Tok("ws"),
       Tok("/div"), Tok("ws"), Tok("/div") >>

\* The regular expression engine on tokens: a match of pat[j..] at position i
\* of doc ends before the position returned; 0 when there is none.  \s* is
\* greedy, and no element after it is whitespace, so nothing is retried.
RECURSIVE MatchFrom(_, _, _, _)
MatchFrom(doc, i, pat, j) ==
    IF j > Len(pat) THEN i
    ELSE IF pat[j] = "ws*"
         THEN IF i <= Len(doc) /\ doc[i].k = "ws"
              THEN MatchFrom(doc, i + 1, pat, j)
              ELSE MatchFrom(doc, i, pat, j + 1)
         ELSE IF i <= Len(doc) /\ doc[i].k = pat[j]
              THEN MatchFrom(doc, i + 1, pat, j + 1)
              ELSE 0

\* re.search(pat, doc)
re_search(pat, doc) == \E i \in 1..Len(doc) : MatchFrom(doc, i, pat, 1) # 0

\* re.sub(pat, repl, doc): every non-overlapping match, leftmost first.
RECURSIVE SubFrom(_, _, _, _)
SubFrom(pat, repl, doc, i) ==
    IF i > Len(doc) THEN <<>>
    ELSE LET e == MatchFrom(doc, i, pat, 1)
         IN  IF e # 0 THEN repl \o SubFrom(pat, repl, doc, e)
                      ELSE <<doc[i]>> \o SubFrom(pat, repl, doc, i + 1)

re_sub(pat, repl, doc) == SubFrom(pat, repl, doc, 1)

\* A patcher that adds a link to a document that already has one.
new_content_relink(content, ai_report_name) ==
    IF re_search(original_ai_pattern, content)
    THEN re_sub(original_ai_pattern, new_ai_section(ai_report_name), content)
    ELSE IF re_search(updated_ai_pattern, content)
         THEN content \o new_ai_section(ai_report_name)
         ELSE content

\* A patcher that points an already patched block at the latest report.
new_content_refresh(content, ai_report_name) ==
    IF re_search(original_ai_pattern, content)
    THEN re_sub(original_ai_pattern, new_ai_section(ai_report_name), content)
    ELSE IF re_search(updated_ai_pattern, content)
         THEN re_sub(updated_ai_pattern, new_ai_section(ai_report_name), content)
         ELSE content

\* The content update_original_report writes back for a document it read.
new_content(content, ai_report_name) ==
    IF re_search(original_ai_pattern, content)
    THEN re_sub(original_ai_pattern, new_ai_section(ai_report_name), content)
    ELSE IF re_search(updated_ai_pattern, content)
         THEN content
         ELSE content

\* os.path.basename of the path analyzer 2 is handed.
basename(path) == path[2]
JoinPath(dir, name) == <<dir, name>>

(* Documents: the placeholder as the summary page writes it (with and     *)
(* without whitespace between the tags), the patched block, markup that    *)
(* diverged from both, and surrounding text.                               *)
UnpatchedTight ==
    << Tok("card"), Tok("value"), Tok("AI"), Tok("/div"),
       Tok("red"), Tok("none"), Tok("/div"), Tok("/div") >>
UnpatchedLoose ==
    << Tok("card"), Tok("ws"), Tok("value"), Tok("ws"), Tok("AI"), Tok("ws"),
       Tok("/div"), Tok("ws"), Tok("red"), Tok("ws"), Tok("none"), Tok("ws"),
       Tok("/div"), Tok("ws"), Tok("/div") >>
\* the indicator reads "none" but is no longer red
DivergedGrey ==
    << Tok("card"), Tok("value"), Tok("AI"), Tok("/div"),
       Tok("grey"), Tok("none"), Tok("/div"), Tok("/div") >>
\* the card is cut before its closing tag
DivergedCut ==
    << Tok("card"), Tok("value"), Tok("AI"), Tok("/div"),
       Tok("red"), Tok("none"), Tok("/div") >>
\* a link with whitespace around its text: not what the patcher writes
DivergedLink ==
    << Tok("card"), Tok("value"), Anchor("p_AIReport_1.html"), Tok("ws"), Tok("AI"),
       Tok("/a"), Tok("/div"), Tok("grey"), Tok("click"), Tok("/div"), Tok("/div") >>

Fragments ==
    {UnpatchedTight, UnpatchedLoose, DivergedGrey, DivergedCut, DivergedLink,
     <<Tok("txt")>>, <<Tok("ws")>>}
    \cup {new_ai_section(n) : n \in Names}

Docs == {Flatten(fs) : fs \in SeqsUpTo(Fragments, MaxFrags)}

IsUnpatched(doc) == re_search(original_ai_pattern, doc)
IsPatched(doc) == re_search(updated_ai_pattern, doc)

PatchInit ==
    /\ summaryDoc \in Docs
    /\ patchLog = <<>>

PatchIdle ==
    /\ summaryDoc = <<>>
    /\ patchLog = <<>>

\* SimpleAIAnalyzer.update_original_report(summary_file, ai_report_name)
update_original_report(ai_report_name) ==
    /\ Len(patchLog) < MaxCalls
    /\ summaryDoc' = new_content(summaryDoc, ai_report_name)
    /\ patchLog' = Append(patchLog,
           [analyzer |-> 1, name |-> ai_report_name, raised |-> FALSE,
            before |-> summaryDoc, after |-> summaryDoc'])
    /\ UNCHANGED notPatch

\* AIAnalyzer.update_original_report(report_file, ai_report_file): the name is
\* the basename of the path of the companion report.
update_original_report2(ai_report_file) ==
    /\ Len(patchLog) < MaxCalls
    /\ summaryDoc' = new_content(summaryDoc, basename(ai_report_file))
    /\ patchLog' = Append(patchLog,
           [analyzer |-> 2, name |-> basename(ai_report_file), raised |-> FALSE,
            before |-> summaryDoc, after |-> summaryDoc'])
    /\ UNCHANGED notPatch

PatchNext ==
    \/ \E n \in Names : update_original_report(n)
    \/ \E d \in Dirs, n \in Names : update_original_report2(JoinPath(d, n))

(***************************************************************************)
(* NARRATIVE CALL  (call_ai_service of both analyzers)                     *)
(***************************************************************************)
max_retries == 3
initial_retry_delay == 2

Services == {"deepseek", "qianwen", "moon", "yunwu"}
ApiKeys == {"", "sk-key"}
Narratives == {"narrative A", "narrative B"}

\* What one requests.post, raise_for_status, response.json and the indexing of
\* the body can end in.
Outcomes == {"ok", "timeout", "conn_error", "http_error", "bad_json", "bad_shape"}
Failures == Outcomes \ {"ok"}

Returned(text) == [raised |-> FALSE, isNone |-> FALSE, text |-> text]
ReturnedNone == [raised |-> FALSE, isNone |-> TRUE, text |-> ""]
Raised == [raised |-> TRUE, isNone |-> FALSE, text |-> ""]
NoResult == [raised |-> FALSE, isNone |-> FALSE, text |-> "(no result yet)"]

get_mock_analysis == "# AI analysis report (local template)"
need_key_message == "an API key must be configured to use the AI analysis"
fail_message(out) == "calling the AI service failed: " \o out

Post(out) == [ev |-> "post", out |-> out, secs |-> 0]
Sleep(secs) == [ev |-> "sleep", out |-> "", secs |-> secs]

\* A handler whose retrying clause also takes the errors of the status.
except_clause2_retry_http(out) ==
    CASE out \in {"timeout", "http_error"} -> "Timeout"
      [] out \in {"conn_error", "bad_json"} -> "RequestException"
      [] out = "bad_shape" -> "Exception"
      [] OTHER -> "none"

\* A handler without the closing `except Exception`.
except_clause2_narrow(out) ==
    CASE out = "timeout" -> "Timeout"
      [] out \in {"conn_error", "http_error", "bad_json"} -> "RequestException"
      [] out = "bad_shape" -> "uncaught"
      [] OTHER -> "none"

\* The except clause of AIAnalyzer.call_ai_service an outcome lands in:
\* Timeout is tested first; the errors of the request and of the status
\* (and requests' own JSON error) are RequestException; the rest is Exception.
except_clause2(out) ==
    CASE out = "timeout" -> "Timeout"
      [] out \in {"conn_error", "http_error", "bad_json"} -> "RequestException"
      [] out = "bad_shape" -> "Exception"
      [] OTHER -> "none"

\* The except clause of SimpleAIAnalyzer.call_ai_service: one, for Exception.
except_clause1(out) == IF out = "ok" THEN "none" ELSE "Exception"

\* A retry that waits the same time again.
next_retry_delay_constant(d) == d

\* retry_delay *= 2
next_retry_delay(d) == d * 2

AiInit ==
    /\ aiConfig \in [analyzer : {1, 2}, ai_service : Services,
                     api_keys : [Services -> ApiKeys]]
    /\ aiPc = "ready"
    /\ attempt = 0
    /\ retry_delay = 0
    /\ aiTrace = <<>>
    /\ aiResult = NoResult

AiIdle ==
    /\ aiConfig = [analyzer |-> 0, ai_service |-> "", api_keys |-> <<>>]
    /\ aiPc = "idle"
    /\ attempt = 0
    /\ retry_delay = 0
    /\ aiTrace = <<>>
    /\ aiResult = NoResult

api_key == aiConfig.api_keys[aiConfig.ai_service]

\* SimpleAIAnalyzer.call_ai_service: one request inside one try.
call_ai_service1(out, narrative) ==
    /\ aiPc = "ready"
    /\ aiConfig.analyzer = 1
    /\ IF api_key = ""
       THEN /\ aiResult' = Returned(need_key_message)
            /\ aiTrace' = aiTrace
       ELSE /\ aiTrace' = Append(aiTrace, Post(out))
            /\ aiResult' = CASE except_clause1(out) = "none" -> Returned(narrative)
                             [] except_clause1(out) = "Exception" -> Returned(fail_message(out))
                             [] OTHER -> Raised
    /\ aiPc' = "returned"
    /\ UNCHANGED <<aiConfig, attempt, retry_delay>>
    /\ UNCHANGED notAi

\* AIAnalyzer.call_ai_service up to the retry loop.
call_ai_service2_begin ==
    /\ aiPc = "ready"
    /\ aiConfig.analyzer = 2
    /\ IF api_key = ""
       THEN /\ aiResult' = Returned(get_mock_analysis)
            /\ aiPc' = "returned"
            /\ UNCHANGED <<attempt, retry_delay>>
       ELSE /\ aiPc' = "loop"
            /\ attempt' = 0
            /\ retry_delay' = initial_retry_delay
            /\ UNCHANGED aiResult
    /\ UNCHANGED <<aiConfig, aiTrace>>
    /\ UNCHANGED notAi

\* One turn of `for attempt in range(max_retries)`: the request, and the
\* except clause its outcome lands in.  A loop that runs out returns None.
call_ai_service2_attempt(out, narrative) ==
    /\ aiPc = "loop"
    /\ IF attempt >= max_retries
       THEN /\ aiResult' = ReturnedNone
            /\ aiPc' = "returned"
            /\ UNCHANGED <<attempt, retry_delay, aiTrace>>
       ELSE LET clause == except_clause2(out) IN
            CASE clause = "none" ->
                   /\ aiTrace' = Append(aiTrace, Post(out))
                   /\ aiResult' = Returned(narrative)
                   /\ aiPc' = "returned"
                   /\ UNCHANGED <<attempt, retry_delay>>
              [] clause = "Timeout" ->
                   IF attempt < max_retries - 1
                   THEN /\ aiTrace' = aiTrace \o <<Post(out), Sleep(retry_delay)>>
                        /\ retry_delay' = next_retry_delay(retry_delay)
                        /\ attempt' = attempt + 1
                        /\ UNCHANGED <<aiResult, aiPc>>
                   ELSE /\ aiTrace' = Append(aiTrace, Post(out))
                        /\ aiResult' = Returned(get_mock_analysis)
                        /\ aiPc' = "returned"
                        /\ UNCHANGED <<attempt, retry_delay>>
              [] clause \in {"RequestException", "Exception"} ->
                   /\ aiTrace' = Append(aiTrace, Post(out))
                   /\ aiResult' = Returned(get_mock_analysis)
                   /\ aiPc' = "returned"
                   /\ UNCHANGED <<attempt, retry_delay>>
              [] OTHER ->
                   /\ aiTrace' = Append(aiTrace, Post(out))
                   /\ aiResult' = Raised
                   /\ aiPc' = "returned"
                   /\ UNCHANGED <<attempt, retry_delay>>
    /\ UNCHANGED aiConfig
    /\ UNCHANGED notAi

AiNext ==
    \/ \E out \in Outcomes, n \in Narratives : call_ai_service1(out, n)
    \/ call_ai_service2_begin
    \/ \E out \in Outcomes, n \in Narratives : call_ai_service2_attempt(out, n)


(***************************************************************************)
(* REPORT RECONCILER  (the drivers' report generation for one result log)  *)
(*                                                                         *)
(* Every run handled here has exited 0 and produced its result log (JTL).  *)
(* `index` is the report artifact the run is left with: "tool" (the        *)
(* load-test tool's own report), "enhanced" (computed from the result      *)
(* log), "simple" (the minimal report of csv_1by1), "sla" (the alternative *)
(* report tool's report with its redirecting index) or "none".  Writing a  *)
(* file succeeds.                                                          *)
(***************************************************************************)
RepDrivers == {"csv_2steps", "csv_1by1", "sla"}

\* The report generator: exit code 0 with or without index.html, another
\* exit code, subprocess.TimeoutExpired, any other exception.
ToolOutcomes == {"exit0_index", "exit0_noindex", "nonzero", "timeout", "exception"}

\* generate_enhanced_html_report: True after writing index.html, False after
\* an exception while it reads the result log.
EnhancedOutcomes == {"written", "failed"}

\* A timeout-tolerant reconciler: the fallback is left out after a timeout.
needs_fallback_not_on_timeout(tool) == tool \in {"exit0_noindex", "nonzero", "exception"}

\* The branches of generate_batch_html_reports that reach the fallback:
\* index.html missing after exit 0, a non-zero exit, a timeout, an exception.
needs_fallback(tool) == tool # "exit0_index"

RepRun(j, tool, index, calls) ==
    [jtl |-> j, tool |-> tool, index |-> index, enhanced_calls |-> calls]

RepInit ==
    /\ repDriver \in RepDrivers
    /\ enhanced_module \in BOOLEAN
    /\ \E n \in 1..MaxJtl : jtl_files = [i \in 1..n |-> i]
    /\ repRuns = <<>>

RepIdle ==
    /\ repDriver = "none"
    /\ enhanced_module = FALSE
    /\ jtl_files = <<>>
    /\ repRuns = <<>>

\* csv_2steps, generate_batch_html_reports: one turn of `for jtl_file in
\* jtl_files`.  The tool's report is kept when it exits 0 and index.html is
\* there; every other branch calls generate_enhanced_html_report if the
\* module was imported, and goes on whatever that returns.
batch_report_one(tool, enhanced) ==
    /\ repDriver = "csv_2steps"
    /\ jtl_files # <<>>
    /\ LET j == Head(jtl_files)
           called == needs_fallback(tool) /\ enhanced_module
           index == IF tool = "exit0_index" THEN "tool"
                    ELSE IF called /\ enhanced = "written" THEN "enhanced"
                    ELSE "none"
       IN  repRuns' = Append(repRuns, RepRun(j, tool, index, IF called THEN 1 ELSE 0))
    /\ jtl_files' = Tail(jtl_files)
    /\ UNCHANGED <<repDriver, enhanced_module>>
    /\ UNCHANGED notRep

\* csv_1by1, run_single_test after the test exited 0, with
\* generate_jmeter_html_report: the test's own report if it is there, else
\* the report generator, else generate_simple_html_report.
run_single_test_1by1(index_exists, tool) ==
    /\ repDriver = "csv_1by1"
    /\ jtl_files # <<>>
    /\ LET j == Head(jtl_files)
           index == IF index_exists THEN "tool"
                    ELSE IF tool = "exit0_index" THEN "tool"
                    ELSE "simple"
       IN  repRuns' = Append(repRuns,
               RepRun(j, IF index_exists THEN "not run" ELSE tool, index, 0))
    /\ jtl_files' = Tail(jtl_files)
    /\ UNCHANGED <<repDriver, enhanced_module>>
    /\ UNCHANGED notRep

\* sla, run_single_test after the test exited 0, with
\* generate_sla_html_report: the test's own report if it is there; else the
\* alternative report tool, which is not started for a result log whose
\* first line is not an XML declaration ("rejected"), and whose failure
\* leaves the run without a report.
run_single_test_sla(index_exists, is_xml, tool) ==
    /\ repDriver = "sla"
    /\ jtl_files # <<>>
    /\ LET j == Head(jtl_files)
           index == IF index_exists THEN "tool"
                    ELSE IF ~is_xml THEN "none"
                    ELSE IF tool = "exit0_index" THEN "sla"
                    ELSE "none"
       IN  repRuns' = Append(repRuns,
               RepRun(j, IF index_exists THEN "not run"
                         ELSE IF ~is_xml THEN "rejected"
                         ELSE tool, index, 0))
    /\ jtl_files' = Tail(jtl_files)
    /\ UNCHANGED <<repDriver, enhanced_module>>
    /\ UNCHANGED notRep

RepNext ==
    \/ \E tool \in ToolOutcomes, enh \in EnhancedOutcomes : batch_report_one(tool, enh)
    \/ \E ix \in BOOLEAN, tool \in ToolOutcomes : run_single_test_1by1(ix, tool)
    \/ \E ix \in BOOLEAN, xml \in BOOLEAN, tool \in ToolOutcomes :
           run_single_test_sla(ix, xml, tool)

(***************************************************************************)
(* RESULT LOG EXTRACTOR  (enhanced_html_report.generate_enhanced_html_report)*)
(*                                                                         *)
(* A CSV result log is an optional header line and data rows.  A cell that *)
(* the code hands to float() is a number, the empty string or other text;  *)
(* timestamps are numeric, so parse_timestamp takes its first return.      *)
(***************************************************************************)
Num(n) == [kind |-> "num", v |-> n]
EmptyCell == [kind |-> "empty", v |-> 0]
TextCell == [kind |-> "text", v |-> 0]

\* The columns of a header line, as far as the code reads them.
HeaderLine == <<"timeStamp", "elapsed", "label", "responseCode", "responseMessage",
                "threadName", "dataType", "success", "failureMessage", "bytes",
                "sentBytes">>

\* A data line after line.split(','): its number of cells and the cells read.
CsvRow(n, ts, elapsed, label, code, success, bytes, sent) ==
    [ncols |-> n, timeStamp |-> ts, elapsed |-> elapsed, label |-> label,
     responseCode |-> code, success |-> success, bytes |-> bytes, sentBytes |-> sent]

GoodRows ==
    { CsvRow(11, 1000, Num(10), "A", "200", TRUE, Num(100), Num(50)),
      CsvRow(11, 3000, Num(30), "A", "500", FALSE, Num(100), Num(50)),
      CsvRow(11, 1000, Num(20), "B", "200", TRUE, Num(100), Num(50)) }

BadRows ==
    { CsvRow(9, 2000, Num(10), "A", "200", TRUE, EmptyCell, EmptyCell),   \* too few cells
      CsvRow(10, 2000, Num(10), "A", "200", TRUE, Num(100), EmptyCell),   \* no sentBytes cell
      CsvRow(12, 2000, Num(10), "A", "200", TRUE, Num(100), Num(50)),     \* one cell too many
      CsvRow(11, 2000, EmptyCell, "A", "200", TRUE, Num(100), Num(50)),   \* elapsed empty
      CsvRow(11, 2000, TextCell, "B", "200", TRUE, Num(100), Num(50)),    \* elapsed not a number
      CsvRow(11, 2000, Num(10), "A", "200", TRUE, EmptyCell, Num(50)),    \* bytes empty
      CsvRow(11, 2000, Num(10), "B", "200", TRUE, Num(100), TextCell) }   \* sentBytes not a number

CsvRows == GoodRows \cup BadRows

\* float(s) raises ValueError unless s is a number.
float_raises(cell) == cell.kind # "num"

\* `float(x) if x else 0` raises only on text that is not a number.
float_or_zero_raises(cell) == cell.kind = "text"

parse_timestamp(ts) == ts

\* The headerless branch: what one line comes to.
row_without_headers(values) ==
    IF values.ncols < 10 THEN [outcome |-> "skip"]
    ELSE IF \/ float_or_zero_raises(values.elapsed)
            \/ float_or_zero_raises(values.bytes)
            \/ (values.ncols > 10 /\ float_raises(values.sentBytes))
         THEN [outcome |-> "raise"]
    ELSE [outcome |-> "sample",
          sampler_name |-> values.label,
          response_time |-> values.elapsed.v,
          success |-> values.success,
          response_code |-> values.responseCode,
          bytes |-> values.bytes.v,
          sent_bytes |-> IF values.ncols > 10 THEN values.sentBytes.v ELSE 0,
          timestamp |-> parse_timestamp(values.timeStamp)]

\* The branch that reads by header: what one line comes to.
row_with_headers(values) ==
    IF values.ncols # Len(HeaderLine) THEN [outcome |-> "skip"]
    ELSE IF \/ float_raises(values.elapsed)
            \/ float_raises(values.bytes)
            \/ float_raises(values.sentBytes)
         THEN [outcome |-> "raise"]
    ELSE [outcome |-> "sample",
          sampler_name |-> values.label,
          response_time |-> values.elapsed.v,
          success |-> values.success,
          response_code |-> values.responseCode,
          bytes |-> values.bytes.v,
          sent_bytes |-> values.sentBytes.v,
          timestamp |-> parse_timestamp(values.timeStamp)]

\* stats[sampler_name] as first created.
new_stat ==
    [sampleCount |-> 0, errorCount |-> 0, totalTime |-> 0, times |-> <<>>,
     bytes |-> 0, sentBytes |-> 0, successCodes |-> <<>>, errorCodes |-> <<>>,
     timestamps |-> <<>>]

\* d[k] = d.get(k, 0) + 1
count_code(d, k) ==
    [c \in DOMAIN d \cup {k} |->
        IF c = k THEN (IF k \in DOMAIN d THEN d[k] ELSE 0) + 1 ELSE d[c]]

\* An update that counts a failed sample without listing its response code.
update_stat_unlisted_error(stat, sample) ==
    [sampleCount |-> stat.sampleCount + 1,
     errorCount |-> IF sample.success THEN stat.errorCount ELSE stat.errorCount + 1,
     totalTime |-> stat.totalTime + sample.response_time,
     times |-> Append(stat.times, sample.response_time),
     bytes |-> stat.bytes + sample.bytes,
     sentBytes |-> stat.sentBytes + sample.sent_bytes,
     successCodes |-> IF sample.success
                      THEN count_code(stat.successCodes, sample.response_code)
                      ELSE stat.successCodes,
     errorCodes |-> stat.errorCodes,
     timestamps |-> Append(stat.timestamps, sample.timestamp)]

\* The update of one label's aggregate with one sample.
update_stat(stat, sample) ==
    [sampleCount |-> stat.sampleCount + 1,
     errorCount |-> IF sample.success THEN stat.errorCount ELSE stat.errorCount + 1,
     totalTime |-> stat.totalTime + sample.response_time,
     times |-> Append(stat.times, sample.response_time),
     bytes |-> stat.bytes + sample.bytes,
     sentBytes |-> stat.sentBytes + sample.sent_bytes,
     successCodes |-> IF sample.success
                      THEN count_code(stat.successCodes, sample.response_code)
                      ELSE stat.successCodes,
     errorCodes |-> IF sample.success
                    THEN stat.errorCodes
                    ELSE count_code(stat.errorCodes, sample.response_code),
     timestamps |-> Append(stat.timestamps, sample.timestamp)]

add_sample(st, sample) ==
    LET name == sample.sampler_name
        stat == IF name \in DOMAIN st THEN st[name] ELSE new_stat
    IN  [l \in DOMAIN st \cup {name} |->
            IF l = name THEN update_stat(stat, sample) ELSE st[l]]

SeqMin(s) == CHOOSE x \in {s[i] : i \in DOMAIN s} : \A i \in DOMAIN s : x <= s[i]
SeqMax(s) == CHOOSE x \in {s[i] : i \in DOMAIN s} : \A i \in DOMAIN s : x >= s[i]
\* The times as they were read.
sorted_as_read(s) == s

sorted(s) == SortSeq(s, LAMBDA a, b : a < b)

\* int(len(sorted_times) * 0.9), * 0.95, * 0.99: the position, from 0.
pct_index(n, p) == (n * p) \div 100

\* A quotient the code computes in floating point, kept as a fraction.
Frac(n, d) == [num |-> n, den |-> d]

\* The summary of one label; Python indexes from 0.
summary(stat) ==
    LET n == Len(stat.times)
        sorted_times == sorted(stat.times)
        run_time_ms == SeqMax(stat.timestamps) - SeqMin(stat.timestamps)
    IN  [sampleCount |-> stat.sampleCount,
         errorCount |-> stat.errorCount,
         meanResTime |-> Frac(stat.totalTime, stat.sampleCount),
         medianResTime |-> sorted_times[(n \div 2) + 1],
         minResTime |-> SeqMin(stat.times),
         maxResTime |-> SeqMax(stat.times),
         errorPct |-> Frac(stat.errorCount * 100, stat.sampleCount),
         pct90 |-> sorted_times[pct_index(n, 90) + 1],
         pct95 |-> sorted_times[pct_index(n, 95) + 1],
         pct99 |-> sorted_times[pct_index(n, 99) + 1],
         tps |-> IF run_time_ms > 0 THEN Frac(stat.sampleCount * 1000, run_time_ms)
                 ELSE Frac(0, 1)]

\* An overall TPS over the seconds touched, first and last included.
total_tps_inclusive(st, ts) ==
    IF ts # <<>> THEN Frac(Len(ts) * 1000, SeqMax(ts) - SeqMin(ts) + 1000) ELSE Frac(0, 1)

total_tps(st, ts) ==
    IF ts # <<>> /\ SeqMax(ts) - SeqMin(ts) > 0
    THEN Frac(Len(ts) * 1000, SeqMax(ts) - SeqMin(ts))
    ELSE Frac(0, 1)

NoReport == [written |-> FALSE, rows |-> <<>>, total_tps |-> Frac(0, 1)]

CsvFiles ==
    [header : BOOLEAN, rows : SeqsUpTo(CsvRows, MaxRows)]

CsvInit ==
    /\ csvFile \in CsvFiles
    /\ csvPc = "reading"
    /\ csvPos = 0
    /\ headers = <<>>
    /\ line_count = 0
    /\ stats = <<>>
    /\ all_timestamps = <<>>
    /\ csvReport = NoReport
    /\ csvReturn = "none"

CsvIdle ==
    /\ csvFile = [header |-> FALSE, rows |-> <<>>]
    /\ csvPc = "idle"
    /\ csvPos = 0
    /\ headers = <<>>
    /\ line_count = 0
    /\ stats = <<>>
    /\ all_timestamps = <<>>
    /\ csvReport = NoReport
    /\ csvReturn = "none"

\* The first line holds 'timeStamp': it becomes the header list.
read_header_line ==
    /\ csvPc = "reading"
    /\ csvFile.header /\ headers = <<>> /\ csvPos = 0 /\ line_count = 0
    /\ headers' = HeaderLine
    /\ line_count' = 1
    /\ UNCHANGED <<csvFile, csvPc, csvPos, stats, all_timestamps, csvReport, csvReturn>>
    /\ UNCHANGED notCsv

\* One turn of `for line in f` on a data line: skipped, aggregated, or a
\* ValueError that the outer `except Exception` turns into `return False`.
read_row ==
    /\ csvPc = "reading"
    /\ csvFile.header => headers # <<>>
    /\ csvPos < Len(csvFile.rows)
    /\ LET values == csvFile.rows[csvPos + 1]
           parsed == IF headers = <<>> THEN row_without_headers(values)
                     ELSE row_with_headers(values)
       IN  CASE parsed.outcome = "skip" ->
                  /\ csvPos' = csvPos + 1
                  /\ UNCHANGED <<csvPc, line_count, stats, all_timestamps, csvReturn>>
             [] parsed.outcome = "raise" ->
                  /\ csvPc' = "returned"
                  /\ csvReturn' = "False"
                  /\ UNCHANGED <<csvPos, line_count, stats, all_timestamps>>
             [] parsed.outcome = "sample" ->
                  /\ csvPos' = csvPos + 1
                  /\ all_timestamps' = Append(all_timestamps, parsed.timestamp)
                  /\ stats' = add_sample(stats, parsed)
                  /\ line_count' = line_count + 1
                  /\ UNCHANGED <<csvPc, csvReturn>>
    /\ UNCHANGED <<csvFile, headers, csvReport>>
    /\ UNCHANGED notCsv

\* After the last line: the summaries, the overall TPS, index.html written,
\* `return True`.
write_report ==
    /\ csvPc = "reading"
    /\ csvFile.header => headers # <<>>
    /\ csvPos = Len(csvFile.rows)
    /\ csvReport' = [written |-> TRUE,
                     rows |-> [l \in DOMAIN stats |-> summary(stats[l])],
                     total_tps |-> total_tps(stats, all_timestamps)]
    /\ csvPc' = "returned"
    /\ csvReturn' = "True"
    /\ UNCHANGED <<csvFile, csvPos, headers, line_count, stats, all_timestamps>>
    /\ UNCHANGED notCsv

CsvNext ==
    \/ read_header_line
    \/ read_row
    \/ write_report

(***************************************************************************)
(* MARKUP EXTRACTOR  (SimpleAIAnalyzer.extract_html_content)               *)
(*                                                                         *)
(* The report page is its 'Test and Report information' table (rows of td  *)
(* texts) and its script tag; dashboard.js is a sequence of tokens: the    *)
(* table selectors, the keys "titles": "overall": "items": "data":, the    *)
(* brackets and the cells.  Positions count from 0 as str.find does.       *)
(***************************************************************************)
Marker(name) == [t |-> "marker", v |-> name, q |-> TRUE]
Key(name) == [t |-> "key", v |-> name, q |-> TRUE]
LB == [t |-> "[", v |-> "[", q |-> FALSE]
RB == [t |-> "]", v |-> "]", q |-> FALSE]
Str(text) == [t |-> "cell", v |-> text, q |-> TRUE]      \* "text"
Atom(text) == [t |-> "cell", v |-> text, q |-> FALSE]    \* a number

\* createTable($("#apdexTable"), {... "overall": {"data": [...]}, "titles":
\* [...], "items": [{"data": [...]}]}) and the blocks that deviate from it.
ApdexBlocks ==
    [ absent |-> <<>>,
      full |-> << Marker("#apdexTable"),
                  Key("overall"), Key("data"), LB, Atom("0.95"), Str("Total"), RB,
                  Key("titles"), LB, Str("Apdex"), Str("Label"), RB,
                  Key("items"), LB, Key("data"), LB, Atom("0.9"), Str("login"), RB, RB >>,
      no_overall |-> << Marker("#apdexTable"),
                  Key("titles"), LB, Str("Apdex"), Str("Label"), RB,
                  Key("items"), LB, RB >> ]

StatisticsBlocks ==
    [ absent |-> <<>>,
      full |-> << Marker("#statisticsTable"),
                  Key("overall"), Key("data"), LB, Str("Total"), Atom("10"), RB,
                  Key("titles"), LB, Str("Label"), Str("#Samples"), RB,
                  Key("items"), LB, Key("data"), LB, Str("login"), Atom("10"), RB, RB >>,
      no_titles |-> << Marker("#statisticsTable"),
                  Key("overall"), Key("data"), LB, Str("Total"), Atom("10"), RB,
                  Key("items"), LB, Key("data"), LB, Str("login"), Atom("10"), RB, RB >>,
      no_overall |-> << Marker("#statisticsTable"),
                  Key("titles"), LB, Str("Label"), Str("#Samples"), RB,
                  Key("items"), LB, Key("data"), LB, Str("login"), Atom("10"), RB, RB >>,
      no_items |-> << Marker("#statisticsTable"),
                  Key("overall"), Key("data"), LB, Str("Total"), Atom("10"), RB,
                  Key("titles"), LB, Str("Label"), Str("#Samples"), RB >>,
      short_overall |-> << Marker("#statisticsTable"),
                  Key("overall"), Key("data"), LB, Str("Total"), RB,
                  Key("titles"), LB, Str("Label"), Str("#Samples"), RB,
                  Key("items"), LB, RB >> ]

ErrorsBlocks ==
    [ absent |-> <<>>,
      full |-> << Marker("#errorsTable"),
                  Key("titles"), LB, Str("Type of error"), Str("Number of errors"), RB,
                  Key("items"), LB, Key("data"), LB, Str("500"), Atom("3"), RB, RB >>,
      no_titles |-> << Marker("#errorsTable"),
                  Key("items"), LB, Key("data"), LB, Str("500"), Atom("3"), RB, RB >> ]

\* The 'Test and Report information' table: not in the page, with a key and
\* a value cell per row, or with a row that holds no cell.
TestInfoTables ==
    [ absent |-> <<>>,
      full |-> << <<"Source file", "results.jtl">>, <<"Start Time", "t0">> >>,
      bare_row |-> << <<>>, <<"Start Time", "t0">> >> ]

HtmlFiles ==
    [test_info : DOMAIN TestInfoTables,
     script_tag : BOOLEAN,
     js_exists : BOOLEAN,
     apdex : DOMAIN ApdexBlocks,
     statistics : DOMAIN StatisticsBlocks,
     errors : DOMAIN ErrorsBlocks]

js_content_of(f) ==
    ApdexBlocks[f.apdex] \o StatisticsBlocks[f.statistics] \o ErrorsBlocks[f.errors]

SetMin(S) == CHOOSE x \in S : \A y \in S : x <= y
SetMax(S) == CHOOSE x \in S : \A y \in S : x >= y

\* str.find(sub, start): the first position at or after start, else -1; a
\* negative start counts from the end.
Find(js, tok, start) ==
    LET from == IF start >= 0 THEN start
                ELSE IF Len(js) + start >= 0 THEN Len(js) + start ELSE 0
        hits == {i \in from..(Len(js) - 1) : js[i + 1] = tok}
    IN  IF hits = {} THEN -1 ELSE SetMin(hits)

\* js_content[a:b] for a, b >= 0, where a is the position after a token.
Slice(js, a, b) == SubSeq(js, a + 1, b)

\* re.findall(r'"([^"]+)"', s): the quoted texts of s.
findall_quoted(s) ==
    LET quoted == SelectSeq(s, LAMBDA tok : tok.q)
    IN  [i \in 1..Len(quoted) |-> quoted[i].v]

\* s.split(',') with each item stripped and unquoted; ''.split(',') is [''].
split_items(s) ==
    IF s = <<>> THEN <<"">> ELSE [i \in 1..Len(s) |-> s[i].v]

\* re.findall(r'"data":\s*\[(.*?)\]', s)
RECURSIVE findall_data(_)
findall_data(s) ==
    IF Len(s) < 3 THEN <<>>
    ELSE IF s[1] = Key("data") /\ s[2] = LB /\ (\E j \in 3..Len(s) : s[j] = RB)
         THEN LET j == SetMin({k \in 3..Len(s) : s[k] = RB})
              IN  <<SubSeq(s, 3, j - 1)>> \o findall_data(SubSeq(s, j + 1, Len(s)))
    ELSE findall_data(Tail(s))

\* row_data[header] = data[i] for i, header in enumerate(headers)
row_data(hs, data) ==
    [h \in {hs[i] : i \in DOMAIN hs} |->
        data[SetMax({i \in DOMAIN hs : hs[i] = h})]]

\* A local that was never assigned.
Unbound == [bound |-> FALSE, val |-> <<>>]
Bound(x) == [bound |-> TRUE, val |-> x]

\* The rows the items give: one per "data" array as long as the header list.
item_rows(hs, matches) ==
    LET kept == SelectSeq(matches, LAMBDA m : hs # <<>> /\ Len(split_items(m)) = Len(hs))
    IN  [i \in 1..Len(kept) |-> row_data(hs, split_items(kept[i]))]

\* test_info: key and value are both taken with the same pattern, which
\* finds the first cell of the row.
test_info_of(rows) ==
    LET with_td == SelectSeq(rows, LAMBDA r : r # <<>>)
    IN  [i \in 1..Len(with_td) |-> [key |-> with_td[i][1], value |-> with_td[i][1]]]

\* The APDEX part: the first item between the brackets after "overall":.
apdex_part(js) ==
    LET apdex_start == Find(js, Marker("#apdexTable"), 0)
        overall_start == Find(js, Key("overall"), apdex_start)
        data_start == Find(js, LB, overall_start)
        data_end == Find(js, RB, data_start)
    IN  IF apdex_start # -1 /\ overall_start # -1 /\ data_start # -1 /\ data_end # -1
        THEN Bound(split_items(Slice(js, data_start + 1, data_end))[1])
        ELSE Unbound

\* The Statistics part: the locals it leaves, the table it appends, and
\* whether `if headers and overall_data` or the item loop reads a local
\* that was never assigned.
statistics_part(js) ==
    LET stats_start == Find(js, Marker("#statisticsTable"), 0)
        titles_start == Find(js, Key("titles"), stats_start)
        titles_end == Find(js, RB, titles_start)
        hdrs == IF titles_start # -1 /\ titles_end # -1
                THEN Bound(findall_quoted(Slice(js, titles_start + 1, titles_end)))
                ELSE Unbound
        overall_start == Find(js, Key("overall"), stats_start)
        data_start == Find(js, LB, overall_start)
        data_end == Find(js, RB, data_start)
        overall_data == IF overall_start # -1 /\ data_start # -1 /\ data_end # -1
                        THEN Bound(split_items(Slice(js, data_start + 1, data_end)))
                        ELSE Unbound
        items_start == Find(js, Key("items"), stats_start)
        items_end == Find(js, RB, items_start)
        in_items == items_start # -1 /\ items_end # -1
        matches == findall_data(Slice(js, items_start + 1, items_end))
        raises == in_items /\ (~hdrs.bound \/ (hdrs.val # <<>> /\ ~overall_data.bound))
        overall_row == IF hdrs.val # <<>> /\ overall_data.val # <<>>
                          /\ Len(overall_data.val) = Len(hdrs.val)
                       THEN <<row_data(hdrs.val, overall_data.val)>> ELSE <<>>
        table_data == overall_row \o item_rows(hdrs.val, matches)
    IN  IF stats_start = -1 THEN [raises |-> FALSE, headers |-> Unbound, tables |-> <<>>]
        ELSE IF raises THEN [raises |-> TRUE, headers |-> hdrs, tables |-> <<>>]
        ELSE [raises |-> FALSE, headers |-> hdrs,
              tables |-> IF in_items /\ table_data # <<>>
                         THEN <<[name |-> "Statistics", headers |-> hdrs.val, data |-> table_data]>>
                         ELSE <<>>]

\* The Errors part; `headers` is the local the Statistics part may have left.
errors_part(js, headers_before) ==
    LET errors_start == Find(js, Marker("#errorsTable"), 0)
        titles_start == Find(js, Key("titles"), errors_start)
        titles_end == Find(js, RB, titles_start)
        hdrs == IF titles_start # -1 /\ titles_end # -1
                THEN Bound(findall_quoted(Slice(js, titles_start + 1, titles_end)))
                ELSE headers_before
        items_start == Find(js, Key("items"), errors_start)
        items_end == Find(js, RB, items_start)
        in_items == items_start # -1 /\ items_end # -1
        matches == findall_data(Slice(js, items_start + 1, items_end))
        raises == in_items /\ matches # <<>> /\ ~hdrs.bound
        table_data == item_rows(hdrs.val, matches)
    IN  IF errors_start = -1 THEN [raises |-> FALSE, tables |-> <<>>]
        ELSE IF raises THEN [raises |-> TRUE, tables |-> <<>>]
        ELSE [raises |-> FALSE,
              tables |-> IF in_items /\ table_data # <<>>
                         THEN <<[name |-> "Errors", headers |-> hdrs.val, data |-> table_data]>>
                         ELSE <<>>]

\* extracted_data["content"]: the keys that were set.
content_of(f, with_js) ==
    LET apdex == apdex_part(js_content_of(f))
        keys == (IF f.test_info # "absent" THEN {"test_info"} ELSE {})
                \cup (IF with_js /\ apdex.bound THEN {"apdex_score"} ELSE {})
    IN  [k \in keys |->
            IF k = "test_info" THEN test_info_of(TestInfoTables[f.test_info])
            ELSE <<apdex.val>>]

ExInit ==
    /\ html_file \in HtmlFiles
    /\ exPc = "ready"
    /\ extracted_data = [content |-> <<>>, tables |-> <<>>]
    /\ exRaised = FALSE

ExIdle ==
    /\ html_file = [test_info |-> "absent", script_tag |-> FALSE, js_exists |-> FALSE,
                    apdex |-> "absent", statistics |-> "absent", errors |-> "absent"]
    /\ exPc = "idle"
    /\ extracted_data = [content |-> <<>>, tables |-> <<>>]
    /\ exRaised = FALSE

\* The whole function: the page's table, then dashboard.js part by part;
\* an exception anywhere returns the empty result of the outer `except`.
extract_html_content ==
    /\ exPc = "ready"
    /\ LET with_js == html_file.script_tag /\ html_file.js_exists
           js == js_content_of(html_file)
           st == statistics_part(js)
           er == errors_part(js, st.headers)
           raises == with_js /\ (st.raises \/ er.raises)
       IN  /\ exRaised' = raises
           /\ extracted_data' =
                 IF raises THEN [content |-> <<>>, tables |-> <<>>]
                 ELSE [content |-> content_of(html_file, with_js),
                       tables |-> IF with_js THEN st.tables \o er.tables ELSE <<>>]
    /\ exPc' = "returned"
    /\ UNCHANGED html_file
    /\ UNCHANGED notEx

ExNext == extract_html_content

(***************************************************************************)
(* TPS FROM THE RESULT LOG  (sla_linux_jmeter563.calculate_tps_from_jtl,   *)
(* calculate_tps_from_csv_jtl)                                             *)
(*                                                                         *)
(* Timestamps are Python integers of any size; here a non-negative integer *)
(* is the pair [hi, lo] that stands for hi * 10^6 + lo, so that epoch      *)
(* milliseconds (about 1.7 * 10^12) keep their value.                      *)
(***************************************************************************)
BigBase == 1000000
Big(h, l) == [hi |-> h, lo |-> l]
BigOf(n) == Big(n \div BigBase, n % BigBase)
BigLt(a, b) == a.hi < b.hi \/ (a.hi = b.hi /\ a.lo < b.lo)
BigLe(a, b) == a = b \/ BigLt(a, b)
\* a - b for a >= b
BigSub(a, b) ==
    IF a.lo >= b.lo THEN Big(a.hi - b.hi, a.lo - b.lo)
    ELSE Big(a.hi - b.hi - 1, a.lo + BigBase - b.lo)
BigInc(a) == IF a.lo + 1 = BigBase THEN Big(a.hi + 1, 0) ELSE Big(a.hi, a.lo + 1)
\* a // 1000
BigDiv1000(a) == Big(a.hi \div 1000, (a.hi % 1000) * 1000 + a.lo \div 1000)
BigMin(S) == CHOOSE x \in S : \A y \in S : BigLe(x, y)
BigMax(S) == CHOOSE x \in S : \A y \in S : BigLe(y, x)

\* int(datetime.datetime.now().timestamp()): the clock, in seconds.
now == 1790000000
\* now * 1000 * 2
now_ms_doubled == Big(now \div 500, (now % 500) * 2000)

\* The last second datetime.fromtimestamp takes (year 9999); beyond it
\* ValueError, or OSError for still larger values.
MaxDateSecond == Big(253402, 300799)
fromtimestamp_raises(t) == BigLt(MaxDateSecond, t)

\* The timestamps the logs carry: small millisecond values, epoch
\* milliseconds, an epoch-second value and one far beyond the clock.
EpochMs == Big(1700000, 0)
TsValues ==
    { BigOf(50), BigOf(1000), BigOf(2000), BigOf(3000),
      EpochMs, Big(1700000, 1000), Big(1700004, 0),
      Big(1700, 0), Big(4000000, 0) }

\* The text of an attribute or a CSV cell as int() sees it.
IntText(b) == [kind |-> "int", v |-> b]
NonIntText == [kind |-> "text", v |-> Big(0, 0)]
BlankText == [kind |-> "empty", v |-> Big(0, 0)]
int_raises(cell) == cell.kind # "int"

timestamp_attributes == <<"ts", "t", "timeStamp", "timestamp">>

\* An element of the XML tree: its tag and its attributes.
Elem(tag, attrib) == [tag |-> tag, attrib |-> attrib]
OneAttr(name, cell) == [a \in {name} |-> cell]
XmlElems ==
    { Elem("httpSample", OneAttr("ts", IntText(v))) : v \in TsValues } \cup
    { Elem("testResults", OneAttr("ts", IntText(BigOf(1000)))),
      Elem("sample", <<>>),
      Elem("sample", [a \in {"ts", "t"} |->
                         IF a = "ts" THEN NonIntText ELSE IntText(BigOf(2000))]),
      Elem("sample", [a \in {"ts", "t"} |->
                         IF a = "ts" THEN IntText(BigOf(1000)) ELSE IntText(BigOf(2000))]),
      Elem("sample", OneAttr("timeStamp", IntText(BigOf(3000)))) }

\* The first line of a log read as CSV (column names, a data line of a
\* log without header, or <<>> for an empty file or a blank line), and the
\* rows after it: the first cell is the timestamp cell, the second the
\* elapsed time; <<>> is a blank line.
CsvHeaders ==
    { <<>>,
      <<"timeStamp", "elapsed", "label">>,
      <<"label", "elapsed", "success">>,
      <<"label", "IdleTime", "timeStamp">>,
      <<"1700000000000", "12", "login">> }
CsvTpsRows ==
    { <<IntText(v), IntText(BigOf(2000)), NonIntText>> : v \in TsValues } \cup
    { <<BlankText, IntText(BigOf(2000)), NonIntText>>,
      <<NonIntText, NonIntText, NonIntText>>,
      <<>> }

\* any(keyword in col_name.lower() for keyword in ['time', 'timestamp'])
has_time_keyword(col_name) == col_name \in {"timeStamp", "IdleTime"}

\* A result log: unreadable, a well-formed XML tree, or text that is not
\* well-formed XML (its first line and the rows after it as csv.reader
\* gives them).
JtlFile(kind, elems, header, rows) ==
    [kind |-> kind, elems |-> elems, header |-> header, rows |-> rows]
\* The log with ts = 1000, 2000, 3000, as XML and as CSV.
ExampleLogs ==
    { JtlFile("xml",
              [i \in 1..3 |-> Elem("httpSample", OneAttr("ts", IntText(BigOf(i * 1000))))],
              <<>>, <<>>),
      JtlFile("text", <<>>, <<"timeStamp", "elapsed", "label">>,
              [i \in 1..3 |-> <<IntText(BigOf(i * 1000)), IntText(BigOf(2000)), NonIntText>>]) }

\* Two samples 1 ms apart on two sides of a full second.
BoundaryLogs ==
    { JtlFile("xml",
              [i \in 1..2 |-> Elem("httpSample", OneAttr("ts", IntText(BigOf(1998 + i))))],
              <<>>, <<>>) }

JtlFiles ==
    ExampleLogs \cup BoundaryLogs \cup
    { JtlFile("unreadable", <<>>, <<>>, <<>>) } \cup
    { JtlFile("xml", es, <<>>, <<>>) : es \in SeqsUpTo(XmlElems, MaxSamples) } \cup
    { JtlFile("text", <<>>, h, rs) :
          h \in CsvHeaders, rs \in SeqsUpTo(CsvTpsRows, MaxSamples) }

NoTps ==
    [none |-> TRUE, total_requests |-> 0, test_duration_seconds |-> Big(0, 0),
     average_tps |-> 0, peak_tps |-> 0, min_tps |-> 0, tps_by_second |-> <<>>,
     start_time |-> [fmt |-> "none", t |-> Big(0, 0)],
     end_time |-> [fmt |-> "none", t |-> Big(0, 0)]]

\* round(n / d, 2) in hundredths, for d >= 1.
round2(n, d) ==
    LET q == (n * 100) \div d
        r == (n * 100) % d
    IN  IF 2 * r < d THEN q
        ELSE IF 2 * r > d THEN q + 1
        ELSE IF q % 2 = 0 THEN q ELSE q + 1

\* round(n / d, 2) for a duration of any size; n is below 5000.
round2_big(n, d) == IF d.hi = 0 THEN round2(n, d.lo) ELSE 0

\* tps_by_second[second] = tps_by_second.get(second, 0) + 1
bucket_counts(seconds) ==
    [k \in {seconds[i] : i \in DOMAIN seconds} |->
        Cardinality({i \in DOMAIN seconds : seconds[i] = k})]

CountMax(f) == CHOOSE c \in {f[k] : k \in DOMAIN f} : \A k \in DOMAIN f : f[k] <= c
CountMin(f) == CHOOSE c \in {f[k] : k \in DOMAIN f} : \A k \in DOMAIN f : f[k] >= c

\* A scan that collects every attribute of the element that int() takes.
elem_timestamp_every_attribute(elem) ==
    LET ok == {i \in DOMAIN timestamp_attributes :
                  /\ timestamp_attributes[i] \in DOMAIN elem.attrib
                  /\ ~int_raises(elem.attrib[timestamp_attributes[i]])}
        picked == SelectSeq(timestamp_attributes,
                            LAMBDA a : \E i \in ok : timestamp_attributes[i] = a)
    IN  IF elem.tag \in {"sample", "httpSample"}
        THEN [i \in 1..Len(picked) |-> elem.attrib[picked[i]].v]
        ELSE <<>>

\* The timestamp of one element: the first attribute in priority order
\* that is there and that int() takes.
elem_timestamp(elem) ==
    LET ok == {i \in DOMAIN timestamp_attributes :
                  /\ timestamp_attributes[i] \in DOMAIN elem.attrib
                  /\ ~int_raises(elem.attrib[timestamp_attributes[i]])}
    IN  IF elem.tag \in {"sample", "httpSample"} /\ ok # {}
        THEN <<elem.attrib[timestamp_attributes[SetMin(ok)]].v>>
        ELSE <<>>

RECURSIVE xml_timestamps(_)
xml_timestamps(elems) ==
    IF elems = <<>> THEN <<>>
    ELSE elem_timestamp(Head(elems)) \o xml_timestamps(Tail(elems))

\* The branch of the unit detection that is taken.
unit_branch(min_ts, max_ts) ==
    IF min_ts = BigOf(1) \/ BigLt(min_ts, BigOf(100)) THEN "small"
    ELSE IF BigLt(now_ms_doubled, max_ts) THEN "beyond_clock"
    ELSE LET time_range == BigSub(max_ts, min_ts)
             time_range_sec == BigSub(BigDiv1000(max_ts), BigDiv1000(min_ts))
         IN  IF BigLe(BigOf(1000), time_range) /\ BigLe(time_range, BigOf(3600000))
             THEN "range_ms"
             ELSE IF BigLt(BigOf(0), time_range_sec) /\ BigLe(time_range_sec, BigOf(3600))
                  THEN "range_after_division"
                  ELSE "forced"

\* A unit detection whose last branch would take the values as seconds.
is_milliseconds_unless_forced(branch) == branch # "forced"

\* is_milliseconds as each branch sets it.
is_milliseconds(branch) ==
    CASE branch = "small" -> TRUE
      [] branch = "beyond_clock" -> TRUE
      [] branch = "range_ms" -> TRUE
      [] branch = "range_after_division" -> TRUE
      [] branch = "forced" -> TRUE

\* The time range line of the summary: formatted, or the raw number after
\* the ValueError / OSError of fromtimestamp.
time_str(t) == [fmt |-> IF fromtimestamp_raises(t) THEN "raw" ELSE "date", t |-> t]

\* The XML path after ET.parse: None without timestamps, else the summary.
tps_from_xml(elems) ==
    LET timestamps == xml_timestamps(elems)
        ts_set == {timestamps[i] : i \in DOMAIN timestamps}
        min_ts == BigMin(ts_set)
        max_ts == BigMax(ts_set)
        branch == unit_branch(min_ts, max_ts)
        ms == is_milliseconds(branch)
        tps_by_second == bucket_counts([i \in DOMAIN timestamps |->
                            IF ms THEN BigDiv1000(timestamps[i]) ELSE timestamps[i]])
        total_requests == Len(timestamps)
        active_seconds == Cardinality(DOMAIN tps_by_second)
        span == BigInc(BigSub(BigMax(DOMAIN tps_by_second), BigMin(DOMAIN tps_by_second)))
        test_duration == IF BigLt(BigOf(3600), span) THEN BigOf(active_seconds) ELSE span
        min_time == IF ms THEN BigDiv1000(min_ts) ELSE min_ts
        max_time == IF ms THEN BigDiv1000(max_ts) ELSE max_ts
    IN  IF timestamps = <<>> THEN [branch |-> "none", data |-> NoTps]
        ELSE [branch |-> branch,
              data |-> [none |-> FALSE,
                        total_requests |-> total_requests,
                        test_duration_seconds |-> test_duration,
                        average_tps |-> round2_big(total_requests, test_duration),
                        peak_tps |-> CountMax(tps_by_second),
                        min_tps |-> CountMin(tps_by_second),
                        tps_by_second |-> tps_by_second,
                        start_time |-> time_str(min_time),
                        end_time |-> time_str(max_time)]]

\* The column the CSV path reads: the first whose name holds 'time'; 0 if none.
timestamp_col(header) ==
    LET hits == {i \in DOMAIN header : has_time_keyword(header[i])}
    IN  IF hits = {} THEN 0 ELSE SetMin(hits)

RECURSIVE csv_timestamps(_, _)
csv_timestamps(rows, col) ==
    IF rows = <<>> THEN <<>>
    ELSE LET row == Head(rows)
         IN  (IF Len(row) >= col /\ ~int_raises(row[col]) THEN <<row[col].v>> ELSE <<>>)
             \o csv_timestamps(Tail(rows), col)

\* calculate_tps_from_csv_jtl: None for an empty file, a header without a
\* time column, no integer timestamp, or any exception (fromtimestamp).
calculate_tps_from_csv_jtl(header, rows) ==
    LET col == timestamp_col(header)
        timestamps == csv_timestamps(rows, col)
        ts_set == {timestamps[i] : i \in DOMAIN timestamps}
        min_ts == BigMin(ts_set)
        max_ts == BigMax(ts_set)
        below == BigLt(min_ts, BigOf(1000000000))
        min_time_sec == BigDiv1000(min_ts)
        max_time_sec == BigDiv1000(max_ts)
        time_range_sec == BigSub(max_time_sec, min_time_sec)
        as_ms == below /\ BigLt(BigOf(0), time_range_sec) /\ BigLt(time_range_sec, BigOf(86400))
        min_time == IF as_ms THEN min_time_sec ELSE min_ts
        max_time == IF as_ms THEN max_time_sec ELSE max_ts
        tps_by_second == bucket_counts([i \in DOMAIN timestamps |->
                            IF below THEN BigDiv1000(timestamps[i]) ELSE timestamps[i]])
        total_requests == Len(timestamps)
        total_seconds == IF BigLt(min_time, max_time)
                         THEN BigInc(BigSub(max_time, min_time)) ELSE BigOf(1)
    IN  IF header = <<>> \/ col = 0 \/ timestamps = <<>> THEN NoTps
        ELSE IF fromtimestamp_raises(min_time) \/ fromtimestamp_raises(max_time) THEN NoTps
        ELSE [none |-> FALSE,
              total_requests |-> total_requests,
              test_duration_seconds |-> total_seconds,
              average_tps |-> round2_big(total_requests, total_seconds),
              peak_tps |-> CountMax(tps_by_second),
              min_tps |-> CountMin(tps_by_second),
              tps_by_second |-> tps_by_second,
              start_time |-> time_str(min_time),
              end_time |-> time_str(max_time)]

\* A reader that gives up after ET.ParseError.
on_parse_error_no_retry(header, rows) == [tried |-> <<>>, data |-> NoTps]

\* except ET.ParseError: return calculate_tps_from_csv_jtl(jtl_file, logger)
on_parse_error(header, rows) ==
    [tried |-> <<"csv">>, data |-> calculate_tps_from_csv_jtl(header, rows)]

TpsInit ==
    /\ jtl_file \in JtlFiles
    /\ tpsPc = "ready"
    /\ tpsTrace = [tried |-> <<>>, branch |-> "none"]
    /\ tps_data = NoTps

TpsIdle ==
    /\ jtl_file = JtlFile("unreadable", <<>>, <<>>, <<>>)
    /\ tpsPc = "idle"
    /\ tpsTrace = [tried |-> <<>>, branch |-> "none"]
    /\ tps_data = NoTps

\* What calculate_tps_from_jtl does with a file: the paths tried, the unit
\* branch taken and the value returned.
jtl_outcome(file) ==
    CASE file.kind = "unreadable" ->
             [tried |-> <<"xml">>, branch |-> "none", data |-> NoTps]
      [] file.kind = "xml" ->
             LET r == tps_from_xml(file.elems)
             IN  [tried |-> <<"xml">>, branch |-> r.branch, data |-> r.data]
      [] file.kind = "text" ->
             LET r == on_parse_error(file.header, file.rows)
             IN  [tried |-> <<"xml">> \o r.tried, branch |-> "none", data |-> r.data]

\* The whole function: ET.parse, then the XML path, or the CSV path after
\* ET.ParseError, or None after any other exception (a file that cannot be
\* opened).
calculate_tps_from_jtl ==
    /\ tpsPc = "ready"
    /\ \E r \in {jtl_outcome(jtl_file)} :
           /\ tpsTrace' = [tried |-> r.tried, branch |-> r.branch]
           /\ tps_data' = r.data
    /\ tpsPc' = "returned"
    /\ UNCHANGED jtl_file
    /\ UNCHANGED notTps

TpsNext == calculate_tps_from_jtl

(***************************************************************************)
(* TPS FROM THE RENDERED REPORT  (calculate_tps_from_html_report)          *)
(*                                                                         *)
(* A rendered report is described by what the three searches can find in   *)
(* it: the numbers in the second column of the first table after the       *)
(* "Pages Overview" heading (<<>> without such a table), the number the     *)
(* first matching Summary pattern finds (0 when none matches or when it is  *)
(* 0), and the other numeric cells of the document.  The rows of the Pages  *)
(* Overview table have a name in the first cell and the request count in    *)
(* the second, as jmeter-sla-report writes them.                            *)
(***************************************************************************)
HtmlReport(exists, pages, summary_cell, other) ==
    [exists |-> exists, pages |-> pages, summary |-> summary_cell, other |-> other]
HtmlReports ==
    { HtmlReport(FALSE, <<>>, 0, <<>>) } \cup
    { HtmlReport(TRUE, p, s, o) :
          p \in SeqsUpTo(0..3, MaxLabels), s \in {0, 3},
          o \in {<<>>, <<1500>>, <<1500, 2000>>, <<200000>>} }

RECURSIVE SumSeq(_)
SumSeq(s) == IF s = <<>> THEN 0 ELSE Head(s) + SumSeq(Tail(s))

\* total_requests after the three methods, each tried while it is still 0.
scraped_total_requests(report) ==
    LET pages_total == SumSeq(report.pages)
        after_summary == IF pages_total = 0 THEN report.summary ELSE pages_total
        number_matches == report.pages \o <<report.summary>> \o report.other
        valid_numbers == SelectSeq(number_matches, LAMBDA n : 1000 <= n /\ n <= 100000)
    IN  IF after_summary = 0 THEN SumSeq(valid_numbers) ELSE after_summary

\* test_duration_seconds = 10
ScrapedDuration == 10

\* The summary of the rendered report, with the three rates in hundredths:
\* avg = total / 10, peak = avg * 1.5, min = avg * 0.5, each rounded to two
\* decimals; None for a file that cannot be read or without any request.
tps_from_html(report) ==
    LET total_requests == scraped_total_requests(report)
    IN  IF ~report.exists \/ total_requests = 0 THEN NoTps
        ELSE [none |-> FALSE,
              total_requests |-> total_requests,
              test_duration_seconds |-> BigOf(ScrapedDuration),
              average_tps |-> round2(total_requests, ScrapedDuration),
              peak_tps |-> round2(total_requests * 15, ScrapedDuration * 10),
              min_tps |-> round2(total_requests * 5, ScrapedDuration * 10),
              tps_by_second |-> <<>>,
              start_time |-> [fmt |-> "from_report", t |-> Big(0, 0)],
              end_time |-> [fmt |-> "from_report", t |-> Big(0, 0)]]

ScrapeInit ==
    /\ html_report \in HtmlReports
    /\ htmlPc = "ready"
    /\ html_tps = NoTps

ScrapeIdle ==
    /\ html_report = HtmlReport(FALSE, <<>>, 0, <<>>)
    /\ htmlPc = "idle"
    /\ html_tps = NoTps

calculate_tps_from_html_report ==
    /\ htmlPc = "ready"
    /\ html_tps' = tps_from_html(html_report)
    /\ htmlPc' = "returned"
    /\ UNCHANGED html_report
    /\ UNCHANGED notScrape

(***************************************************************************)
(* TPS ADDED TO THE RENDERED REPORT  (enhance_report_with_tps)             *)
(***************************************************************************)
\* The logs handed to enhance_report_with_tps: the example logs and logs
\* that give no TPS data.
EnhanceLogs ==
    ExampleLogs \cup BoundaryLogs \cup
    { JtlFile("unreadable", <<>>, <<>>, <<>>),
      JtlFile("xml", <<Elem("sample", <<>>)>>, <<>>, <<>>),
      JtlFile("text", <<>>, <<>>, <<>>) }

\* A driver that would scrape the rendered report in every run.
needs_html_always(data) == TRUE

\* if not tps_data
needs_html(data) == data.none

NotEnhanced == [pc |-> "ready", written |-> FALSE, added |-> NoTps, ret |-> "none"]

EnhanceInit ==
    /\ TpsInit /\ jtl_file \in EnhanceLogs
    /\ ScrapeInit
    /\ tpsBlock = NotEnhanced

EnhanceIdle == tpsBlock = [NotEnhanced EXCEPT !.pc = "idle"]

\* The whole function: the log first, the rendered report only after the
\* log gave nothing, False without both; else the report is read, the TPS
\* block is added and the report is written back.  A report that cannot be
\* read raises, which returns False.
enhance_report_with_tps ==
    /\ tpsBlock.pc = "ready"
    /\ \E from_jtl \in {jtl_outcome(jtl_file)}, from_html \in {tps_from_html(html_report)} :
       LET consult == needs_html(from_jtl.data)
           data == IF consult THEN from_html ELSE from_jtl.data
           write == ~data.none /\ html_report.exists
       IN  /\ tpsTrace' = [tried |-> from_jtl.tried, branch |-> from_jtl.branch]
           /\ tps_data' = from_jtl.data
           /\ tpsPc' = "returned"
           /\ html_tps' = IF consult THEN from_html ELSE html_tps
           /\ htmlPc' = IF consult THEN "returned" ELSE htmlPc
           /\ tpsBlock' = [pc |-> "returned", written |-> write,
                           added |-> IF write THEN data ELSE NoTps,
                           ret |-> IF write THEN "True" ELSE "False"]
    /\ UNCHANGED <<jtl_file, html_report>>
    /\ UNCHANGED notTpsPaths

(***************************************************************************)
(* NARRATIVE RENDERING  (SimpleAIAnalyzer.markdown_to_html)                *)
(*                                                                         *)
(* The narrative is a sequence of lines: text, blank, lines holding '|'    *)
(* (with their non-empty fields), '- ' items and 'N. ' items.  The texts   *)
(* carry no markup of their own, so the substitutions for headings, bold,  *)
(* italics, code, quotes, rules and links leave them alone.                *)
(***************************************************************************)
MdLine(kind, cells) == [k |-> kind, cells |-> cells]
MdLines ==
    { MdLine("text", <<"intro">>), MdLine("text", <<>>),
      MdLine("pipe", <<"A", "B">>), MdLine("pipe", <<"---", "---">>),
      MdLine("pipe", <<"1", "2">>), MdLine("pipe", <<>>),
      MdLine("ul", <<"x">>), MdLine("ol", <<"y">>) }

\* "A|B / ---|--- / 1|2" at the end of the input, before a text line, and
\* twice with a text line between.
ExampleDocs ==
    LET table == << MdLine("pipe", <<"A", "B">>), MdLine("pipe", <<"---", "---">>),
                    MdLine("pipe", <<"1", "2">>) >>
    IN  { table, table \o <<MdLine("text", <<"intro">>)>>,
          table \o <<MdLine("text", <<>>)>> \o table }

\* What process_tables appends to result: a line as it is, or one table.
AsLine(line) == [k |-> "line", line |-> line, headers |-> <<>>, rows |-> <<>>]

\* A table that keeps a row for a line without any non-empty field.
html_table_every_line(lines) ==
    [k |-> "table", line |-> MdLine("text", <<>>),
     headers |-> lines[1].cells,
     rows |-> [i \in 1..(Len(lines) - 2) |-> lines[i + 2].cells]]

\* The table of two or more collected lines: the first gives the header
\* cells, the second is left out, the others give a row `if cells`.
html_table(lines) ==
    LET data_lines == SubSeq(lines, 3, Len(lines))
        with_cells == SelectSeq(data_lines, LAMBDA l : l.cells # <<>>)
    IN  [k |-> "table", line |-> MdLine("text", <<>>),
         headers |-> lines[1].cells,
         rows |-> [i \in 1..Len(with_cells) |-> with_cells[i].cells]]

\* The flush of the collected lines: a table for two or more, else nothing.
flush(lines) == IF Len(lines) >= 2 THEN <<html_table(lines)>> ELSE <<>>

\* The markup of the text handed on by process_tables, as tokens.
tokens_of(elem) ==
    IF elem.k = "table" THEN <<"<table>">>
    ELSE IF elem.line.k = "ul" THEN <<"- ", "item">>
    ELSE IF elem.line.k = "ol" THEN <<"N. ", "item">>
    ELSE IF elem.line.cells = <<>> THEN <<>> ELSE <<"text">>

RECURSIVE join_lines(_)
join_lines(elems) ==
    IF elems = <<>> THEN <<>>
    ELSE IF Len(elems) = 1 THEN tokens_of(elems[1])
    ELSE tokens_of(elems[1]) \o <<"\n">> \o join_lines(Tail(elems))

\* re.sub(r'^- (.*?)$', r'<li>\1</li>', ...) and the same for r'^\d+\. ':
\* the marker at the start of a line, the item up to the end of the line.
RECURSIVE sub_items(_, _, _)
sub_items(toks, marker, at_line_start) ==
    IF toks = <<>> THEN <<>>
    ELSE IF at_line_start /\ toks[1] = marker
         THEN LET ends == {i \in 2..Len(toks) : toks[i] = "\n"}
                  stop == IF ends = {} THEN Len(toks) + 1 ELSE SetMin(ends)
              IN  <<"<li>">> \o SubSeq(toks, 2, stop - 1) \o <<"</li>">>
                  \o sub_items(SubSeq(toks, stop, Len(toks)), marker, FALSE)
         ELSE <<toks[1]>> \o sub_items(Tail(toks), marker, toks[1] = "\n")

\* re.sub(r'(<li>.*?</li>)', r'<tag>\1</tag>', ..., re.DOTALL): every <li>
\* up to the next </li> gets its own container.
RECURSIVE wrap_items(_, _)
wrap_items(toks, tag) ==
    IF toks = <<>> THEN <<>>
    ELSE LET closes == {i \in 1..Len(toks) : toks[i] = "</li>"}
         IN  IF toks[1] = "<li>" /\ closes # {}
             THEN <<"<" \o tag \o ">">> \o SubSeq(toks, 1, SetMin(closes))
                  \o <<"</" \o tag \o ">">>
                  \o wrap_items(SubSeq(toks, SetMin(closes) + 1, Len(toks)), tag)
             ELSE <<toks[1]>> \o wrap_items(Tail(toks), tag)

\* The four list substitutions in their order.
render_list_items(toks) ==
    wrap_items(sub_items(wrap_items(sub_items(toks, "- ", TRUE), "ul"), "N. ", TRUE), "ol")

MdInit ==
    /\ md_lines \in SeqsUpTo(MdLines, MaxLines) \cup ExampleDocs
    /\ mdPc = "tables"
    /\ mdPos = 0
    /\ in_table = FALSE
    /\ table_lines = <<>>
    /\ result = <<>>
    /\ mdHtml = <<>>

MdIdle ==
    /\ md_lines = <<>>
    /\ mdPc = "idle"
    /\ mdPos = 0
    /\ in_table = FALSE
    /\ table_lines = <<>>
    /\ result = <<>>
    /\ mdHtml = <<>>

\* for line in lines: a line with '|' is collected.
collect_table_line ==
    /\ mdPc = "tables"
    /\ mdPos < Len(md_lines)
    /\ md_lines[mdPos + 1].k = "pipe"
    /\ in_table' = TRUE
    /\ table_lines' = Append(table_lines, md_lines[mdPos + 1])
    /\ mdPos' = mdPos + 1
    /\ UNCHANGED <<md_lines, mdPc, result, mdHtml>>
    /\ UNCHANGED notMd

\* for line in lines: a line without '|' ends a table and is appended.
append_other_line ==
    /\ mdPc = "tables"
    /\ mdPos < Len(md_lines)
    /\ md_lines[mdPos + 1].k # "pipe"
    /\ result' = result \o (IF in_table THEN flush(table_lines) ELSE <<>>)
                        \o <<AsLine(md_lines[mdPos + 1])>>
    /\ in_table' = FALSE
    /\ table_lines' = <<>>
    /\ mdPos' = mdPos + 1
    /\ UNCHANGED <<md_lines, mdPc, mdHtml>>
    /\ UNCHANGED notMd

\* After the loop: the last table, and process_tables returns.
end_of_lines ==
    /\ mdPc = "tables"
    /\ mdPos = Len(md_lines)
    /\ result' = result \o (IF in_table THEN flush(table_lines) ELSE <<>>)
    /\ mdPc' = "lists"
    /\ UNCHANGED <<md_lines, mdPos, in_table, table_lines, mdHtml>>
    /\ UNCHANGED notMd

\* The rest of markdown_to_html, as far as it touches the modelled markup:
\* the list substitutions.
render_lists ==
    /\ mdPc = "lists"
    /\ mdHtml' = render_list_items(join_lines(result))
    /\ mdPc' = "returned"
    /\ UNCHANGED <<md_lines, mdPos, in_table, table_lines, result>>
    /\ UNCHANGED notMd

MdNext ==
    \/ collect_table_line
    \/ append_other_line
    \/ end_of_lines
    \/ render_lists

(***************************************************************************)
(* ONE ANALYSIS RUN  (SimpleAIAnalyzer.analyze_summary_report from the     *)
(* writing of the companion report on, AIAnalyzer.analyze_report from      *)
(* generate_ai_report on)                                                  *)
(*                                                                         *)
(* The run works on summaryDoc.  A fault is where the writing of the       *)
(* companion report raises: while the markup is synthesized, when the file *)
(* is opened, or in f.write after the file was created.                    *)
(***************************************************************************)
RunFaults == {"none", "synthesize", "open", "write"}
Runs == [analyzer : {1, 2}, name : Names, fault : RunFaults]

\* The companion report on disk.
NotWritten(name) == [name |-> name, written |-> "no"]

\* The value generate_ai_report returns: the path, or None.
ReportPath(path) == [none |-> FALSE, path |-> path]
NoReportPath == [none |-> TRUE, path |-> JoinPath("", "")]

\* An os.path.basename that would take None for an empty path.
basename_raises_never(ai_report_file) == FALSE

\* os.path.basename(None) raises TypeError.
basename_raises(ai_report_file) == ai_report_file.none

\* What the fault leaves of the companion report on disk.
written_after(fault) ==
    CASE fault = "none" -> "full"
      [] fault = "write" -> "partial"
      [] fault \in {"synthesize", "open"} -> "no"

RunInit ==
    /\ summaryDoc \in Docs
    /\ patchLog = <<>>
    /\ run \in Runs
    /\ runPc = "start"
    /\ ai_report = NotWritten(run.name)
    /\ ai_report_ret = NoReportPath

RunIdle ==
    /\ run = [analyzer |-> 1, name |-> "p_AIReport_1.html", fault |-> "none"]
    /\ runPc = "idle"
    /\ ai_report = NotWritten("p_AIReport_1.html")
    /\ ai_report_ret = NoReportPath

\* Analyzer 1: generate_simple_analysis_html and the write; an exception
\* leaves analyze_summary_report at once.
write_ai_report ==
    /\ runPc = "start"
    /\ run.analyzer = 1
    /\ ai_report' = [ai_report EXCEPT !.written = written_after(run.fault)]
    /\ ai_report_ret' = IF run.fault = "none"
                         THEN ReportPath(JoinPath("reports", run.name))
                         ELSE NoReportPath
    /\ runPc' = IF run.fault = "none" THEN "written" ELSE "raised"
    /\ UNCHANGED <<run, summaryDoc, patchLog>>
    /\ UNCHANGED notRunPatch

\* Analyzer 2: generate_ai_report returns the path, or None after any
\* exception, and analyze_report goes on either way.
generate_ai_report ==
    /\ runPc = "start"
    /\ run.analyzer = 2
    /\ ai_report' = [ai_report EXCEPT !.written = written_after(run.fault)]
    /\ ai_report_ret' = IF run.fault = "none"
                         THEN ReportPath(JoinPath("reports", run.name))
                         ELSE NoReportPath
    /\ runPc' = "written"
    /\ UNCHANGED <<run, summaryDoc, patchLog>>
    /\ UNCHANGED notRunPatch

\* The call of update_original_report that follows: analyzer 1 hands in the
\* name, analyzer 2 the value generate_ai_report returned, whose basename is
\* taken before the document is written back.
patch_summary ==
    /\ runPc = "written"
    /\ LET raised == run.analyzer = 2 /\ basename_raises(ai_report_ret)
           name == IF run.analyzer = 1 THEN run.name ELSE basename(ai_report_ret.path)
       IN  /\ summaryDoc' = IF raised THEN summaryDoc ELSE new_content(summaryDoc, name)
           /\ patchLog' = Append(patchLog,
                  [analyzer |-> run.analyzer, name |-> name, raised |-> raised,
                   before |-> summaryDoc, after |-> summaryDoc'])
    /\ runPc' = "returned"
    /\ UNCHANGED <<run, ai_report, ai_report_ret>>
    /\ UNCHANGED notRunPatch

RunNext ==
    \/ write_ai_report
    \/ generate_ai_report
    \/ patch_summary

(***************************************************************************)
(* THE TWO-PHASE DRIVERS  (main of csv_2steps_linux_jmeter563.py and of    *)
(* jmeter563_windows.py with separate_report_generation)                   *)
(*                                                                         *)
(* A test plan is a file name; its outcome says how the JMeter process     *)
(* ended and what result log it left in the results directory.             *)
(***************************************************************************)
PlanNames == {"1_a", "2_b", "10_c", "plan"}
\* re.search(r'^(\d+)_', name): the number, -1 without a match.
number_prefix(name) ==
    CASE name = "1_a" -> 1 [] name = "2_b" -> 2 [] name = "10_c" -> 10 [] OTHER -> -1

PlanOutcomes == {"ok", "small_jtl", "exit1_jtl", "timeout_jtl", "exit0_no_jtl"}
LeavesJtl(outcome) == outcome # "exit0_no_jtl"

\* get_jmx_files_sorted / get_jmx_files: the plans with a numeric prefix,
\* ascending by number.
RECURSIVE get_jmx_files_sorted(_)
get_jmx_files_sorted(names) ==
    LET with_number == {n \in names : number_prefix(n) >= 0}
    IN  IF with_number = {} THEN <<>>
        ELSE LET first == CHOOSE n \in with_number :
                              \A m \in with_number : number_prefix(n) <= number_prefix(m)
             IN  <<first>> \o get_jmx_files_sorted(with_number \ {first})

\* What run_single_test (csv_2steps) and run_jmeter_test (windows) return.
test_succeeded(driver, outcome) ==
    IF driver = "csv_2steps" THEN outcome \in {"ok", "small_jtl"}
    ELSE outcome = "ok"

PhaseInit ==
    /\ \E names \in SUBSET PlanNames :
          /\ Cardinality(names) <= MaxPlans
          /\ jmx_files = get_jmx_files_sorted(names)
    /\ phase \in [driver : {"csv_2steps", "windows"},
                  summary_module : BOOLEAN,
                  outcome : [PlanNames -> PlanOutcomes]]
    /\ \A n \in PlanNames :
          (\A i \in DOMAIN jmx_files : jmx_files[i] # n) => phase.outcome[n] = "ok"
    /\ phPc = "tests"
    /\ successful_tests = <<>>
    /\ to_report = {}
    /\ phTrace = <<>>

PhaseIdle ==
    /\ jmx_files = <<>>
    /\ phase = [driver |-> "csv_2steps", summary_module |-> FALSE,
                outcome |-> [n \in PlanNames |-> "ok"]]
    /\ phPc = "idle"
    /\ successful_tests = <<>>
    /\ to_report = {}
    /\ phTrace = <<>>

Event(ev, plan) == [ev |-> ev, plan |-> plan]
TestsRun == Cardinality({i \in DOMAIN phTrace : phTrace[i].ev = "test"})

\* if not jmx_files: return
main_no_plans ==
    /\ phPc = "tests"
    /\ jmx_files = <<>>
    /\ phPc' = "done"
    /\ UNCHANGED <<jmx_files, phase, successful_tests, to_report, phTrace>>
    /\ UNCHANGED notPhase

\* One pass of the first loop: the test, its verdict, and the wait unless
\* it was the last plan.
run_test ==
    /\ phPc = "tests"
    /\ TestsRun < Len(jmx_files)
    /\ LET plan == jmx_files[TestsRun + 1]
           last == TestsRun + 1 = Len(jmx_files)
       IN  /\ phTrace' = phTrace \o <<Event("test", plan)>>
                         \o (IF last THEN <<>> ELSE <<Event("sleep", plan)>>)
           /\ successful_tests' =
                 IF test_succeeded(phase.driver, phase.outcome[plan])
                 THEN Append(successful_tests, plan) ELSE successful_tests
           /\ phPc' = IF last THEN "tested" ELSE "tests"
    /\ UNCHANGED <<jmx_files, phase, to_report>>
    /\ UNCHANGED notPhase

\* Phase two starts: csv_2steps hands over the logs of the successful
\* tests, the windows driver globs the results directory for every log of
\* this run's timestamp; without a successful test there is no phase two.
start_reports ==
    /\ phPc = "tested"
    /\ to_report' =
          IF successful_tests = <<>> THEN {}
          ELSE IF phase.driver = "csv_2steps"
               THEN {successful_tests[i] : i \in DOMAIN successful_tests}
               ELSE {jmx_files[i] : i \in {k \in DOMAIN jmx_files :
                                              LeavesJtl(phase.outcome[jmx_files[k]])}}
    /\ phPc' = IF successful_tests = <<>> THEN "done" ELSE "reports"
    /\ UNCHANGED <<jmx_files, phase, successful_tests, phTrace>>
    /\ UNCHANGED notPhase

\* One pass of the report loop: csv_2steps in the order of the list, the
\* windows driver in the order of the glob.
report_one ==
    /\ phPc = "reports"
    /\ \E plan \in to_report :
          /\ phase.driver = "csv_2steps" =>
                \A other \in to_report : number_prefix(plan) <= number_prefix(other)
          /\ phTrace' = Append(phTrace, Event("report", plan))
          /\ to_report' = to_report \ {plan}
    /\ UNCHANGED <<jmx_files, phase, successful_tests, phPc>>
    /\ UNCHANGED notPhase

\* After the report loop: generate_batch_html_reports calls
\* generate_report_summary when report_summary could be imported; the
\* windows driver is done.
end_of_batch ==
    /\ phPc = "reports"
    /\ to_report = {}
    /\ phTrace' = IF phase.driver = "csv_2steps" /\ phase.summary_module
                  THEN Append(phTrace, Event("summary", "batch")) ELSE phTrace
    /\ phPc' = IF phase.driver = "csv_2steps" THEN "batch_done" ELSE "done"
    /\ UNCHANGED <<jmx_files, phase, successful_tests, to_report>>
    /\ UNCHANGED notPhase

\* main of csv_2steps after batch_success: generate_report_summary_wrapper
\* imports report_summary and calls generate_report_summary.
main_summary ==
    /\ phPc = "batch_done"
    /\ phTrace' = IF phase.summary_module
                  THEN Append(phTrace, Event("summary", "main")) ELSE phTrace
    /\ phPc' = "done"
    /\ UNCHANGED <<jmx_files, phase, successful_tests, to_report>>
    /\ UNCHANGED notPhase

PhaseNext ==
    \/ main_no_plans
    \/ run_test
    \/ start_reports
    \/ report_one
    \/ end_of_batch
    \/ main_summary

(***************************************************************************)
(* HEADINGS OF THE COMPANION REPORT  (AIAnalyzer.generate_ai_report_html,  *)
(* the three heading substitutions)                                        *)
(*                                                                         *)
(* The narrative is a sequence of characters; an inserted tag is one       *)
(* element, since no tag holds a '#' or a blank.                           *)
(***************************************************************************)
MaxChars == 4
Chars == {"#", " ", "a", "\n"}

\* Narratives with a heading of each level.
ExampleTexts ==
    { <<"#", "#", "#", " ", "a">>,
      <<"#", " ", "a", "\n", "#", "#", " ", "a">>,
      <<"#", " ", "a", "\n", "#", "#", " ", "a", "\n", "#", "#", "#", " ", "a">> }

\* str.strip(): blanks and line ends are taken from both ends.
RECURSIVE lstrip(_)
lstrip(s) == IF s # <<>> /\ Head(s) \in {" ", "\n"} THEN lstrip(Tail(s)) ELSE s
RECURSIVE rstrip(_)
rstrip(s) ==
    IF s # <<>> /\ s[Len(s)] \in {" ", "\n"} THEN rstrip(SubSeq(s, 1, Len(s) - 1)) ELSE s
strip(s) == rstrip(lstrip(s))

\* str.replace(old, new): every occurrence of old, from the left, without
\* overlap, and nothing that new brings in is looked at again.
RECURSIVE str_replace(_, _, _)
str_replace(s, old, new) ==
    IF s = <<>> THEN <<>>
    ELSE IF Len(s) >= Len(old) /\ SubSeq(s, 1, Len(old)) = old
         THEN new \o str_replace(SubSeq(s, Len(old) + 1, Len(s)), old, new)
         ELSE <<Head(s)>> \o str_replace(Tail(s), old, new)

HeadInit ==
    /\ analysis_result \in SeqsUpTo(Chars, MaxChars) \cup ExampleTexts
    /\ processed_analysis = <<>>
    /\ headPc = "strip"

HeadIdle ==
    /\ analysis_result = <<>>
    /\ processed_analysis = <<>>
    /\ headPc = "idle"

\* processed_analysis = analysis_result.strip()
strip_analysis ==
    /\ headPc = "strip"
    /\ processed_analysis' = strip(analysis_result)
    /\ headPc' = "h3"
    /\ UNCHANGED analysis_result
    /\ UNCHANGED notHead

\* .replace('# ', '<h3>').replace('</h3>', '</h3>')
replace_h3 ==
    /\ headPc = "h3"
    /\ processed_analysis' =
           str_replace(str_replace(processed_analysis, <<"#", " ">>, <<"<h3>">>),
                       <<"</h3>">>, <<"</h3>">>)
    /\ headPc' = "h4"
    /\ UNCHANGED analysis_result
    /\ UNCHANGED notHead

\* .replace('## ', '<h4>').replace('</h4>', '</h4>')
replace_h4 ==
    /\ headPc = "h4"
    /\ processed_analysis' =
           str_replace(str_replace(processed_analysis, <<"#", "#", " ">>, <<"<h4>">>),
                       <<"</h4>">>, <<"</h4>">>)
    /\ headPc' = "h5"
    /\ UNCHANGED analysis_result
    /\ UNCHANGED notHead

\* .replace('### ', '<h5>').replace('</h5>', '</h5>')
replace_h5 ==
    /\ headPc = "h5"
    /\ processed_analysis' =
           str_replace(str_replace(processed_analysis, <<"#", "#", "#", " ">>, <<"<h5>">>),
                       <<"</h5>">>, <<"</h5>">>)
    /\ headPc' = "headings_done"
    /\ UNCHANGED analysis_result
    /\ UNCHANGED notHead

HeadNext ==
    \/ strip_analysis
    \/ replace_h3
    \/ replace_h4
    \/ replace_h5

(***************************************************************************)
(* THE REPORT TITLE  (modify_report_title of the SLA driver)               *)
(*                                                                         *)
(* The report page is a sequence of tokens: the two title tags, the text   *)
(* 'Load Test Report', other text and the line end.  The test name and the *)
(* ' - ' after it are tokens that only the function brings in.             *)
(***************************************************************************)
MaxTokens == 4
MaxTitleCalls == 2
TitleTokens == {"<title>", "</title>", "Load Test Report", "text", "\n"}

\* The head and the first heading of a generated report.
ExampleReports ==
    { <<"<title>", "Load Test Report", "</title>", "\n", "Load Test Report">>,
      <<"<title>", "text", "</title>", "\n", "Load Test Report", "\n", "text">> }

new_title == <<"<title>", "test_name", " - ", "Load Test Report", "</title>">>

\* Where '<title>.*?</title>' ends when it starts at the head of s: the
\* nearest '</title>' with no line end before it; 0 without one.
title_end(s) ==
    LET ends == {j \in 2..Len(s) : /\ s[j] = "</title>"
                                   /\ \A k \in 2..(j - 1) : s[k] # "\n"}
    IN  IF ends = {} THEN 0 ELSE SetMin(ends)

\* re.sub(r'<title>.*?</title>', new_title, html_content)
RECURSIVE sub_title(_)
sub_title(s) ==
    IF s = <<>> THEN <<>>
    ELSE IF Head(s) = "<title>" /\ title_end(s) # 0
         THEN new_title \o sub_title(SubSeq(s, title_end(s) + 1, Len(s)))
         ELSE <<Head(s)>> \o sub_title(Tail(s))

\* The content written back by a call that raises nothing.
retitled(html_content) ==
    str_replace(IF \E i \in DOMAIN html_content : html_content[i] = "<title>"
                THEN sub_title(html_content) ELSE html_content,
                <<"Load Test Report">>,
                <<"test_name", " - ", "Load Test Report">>)

TitleInit ==
    /\ report_page \in SeqsUpTo(TitleTokens, MaxTokens) \cup ExampleReports
    /\ titleCalls = <<>>
    /\ titlePc = "ready"

TitleIdle ==
    /\ report_page = <<>>
    /\ titleCalls = <<>>
    /\ titlePc = "idle"

\* One call of modify_report_title(html_file, test_name, logger): the file
\* is read, changed and written back; an exception of open() gives False
\* and leaves the file as it was.
modify_report_title ==
    /\ titlePc = "ready"
    /\ Len(titleCalls) < MaxTitleCalls
    /\ \E open_raises \in BOOLEAN :
          /\ report_page' = IF open_raises THEN report_page ELSE retitled(report_page)
          /\ titleCalls' = Append(titleCalls,
                 [ret |-> ~open_raises, before |-> report_page,
                  after |-> IF open_raises THEN report_page ELSE retitled(report_page)])
    /\ UNCHANGED titlePc
    /\ UNCHANGED notTitle

(***************************************************************************)
(* Specifications                                                          *)
(***************************************************************************)
InitPatch == PatchInit /\ AiIdle /\ RepIdle /\ CsvIdle /\ ExIdle /\ TpsIdle /\ MdIdle /\ ScrapeIdle /\ RunIdle /\ EnhanceIdle /\ PhaseIdle /\ HeadIdle /\ TitleIdle
SpecPatch == InitPatch /\ [][PatchNext]_vars

InitAI == AiInit /\ PatchIdle /\ RepIdle /\ CsvIdle /\ ExIdle /\ TpsIdle /\ MdIdle /\ ScrapeIdle /\ RunIdle /\ EnhanceIdle /\ PhaseIdle /\ HeadIdle /\ TitleIdle
SpecAI == InitAI /\ [][AiNext]_vars

InitReport == RepInit /\ PatchIdle /\ AiIdle /\ CsvIdle /\ ExIdle /\ TpsIdle /\ MdIdle /\ ScrapeIdle /\ RunIdle /\ EnhanceIdle /\ PhaseIdle /\ HeadIdle /\ TitleIdle
SpecReport == InitReport /\ [][RepNext]_vars

InitCsv == CsvInit /\ PatchIdle /\ AiIdle /\ RepIdle /\ ExIdle /\ TpsIdle /\ MdIdle /\ ScrapeIdle /\ RunIdle /\ EnhanceIdle /\ PhaseIdle /\ HeadIdle /\ TitleIdle
SpecCsv == InitCsv /\ [][CsvNext]_vars

InitExtract == ExInit /\ PatchIdle /\ AiIdle /\ RepIdle /\ CsvIdle /\ TpsIdle /\ MdIdle /\ ScrapeIdle /\ RunIdle /\ EnhanceIdle /\ PhaseIdle /\ HeadIdle /\ TitleIdle
SpecExtract == InitExtract /\ [][ExNext]_vars

InitTps == TpsInit /\ PatchIdle /\ AiIdle /\ RepIdle /\ CsvIdle /\ ExIdle /\ MdIdle /\ ScrapeIdle /\ RunIdle /\ EnhanceIdle /\ PhaseIdle /\ HeadIdle /\ TitleIdle
SpecTps == InitTps /\ [][TpsNext]_vars

InitMd == MdInit /\ PatchIdle /\ AiIdle /\ RepIdle /\ CsvIdle /\ ExIdle /\ TpsIdle /\ ScrapeIdle /\ RunIdle /\ EnhanceIdle /\ PhaseIdle /\ HeadIdle /\ TitleIdle
SpecMd == InitMd /\ [][MdNext]_vars

InitRun == RunInit /\ AiIdle /\ RepIdle /\ CsvIdle /\ ExIdle /\ TpsIdle /\ MdIdle /\ ScrapeIdle /\ EnhanceIdle /\ PhaseIdle /\ HeadIdle /\ TitleIdle
SpecRun == InitRun /\ [][RunNext]_vars

InitEnhance ==
    EnhanceInit /\ PatchIdle /\ AiIdle /\ RepIdle /\ CsvIdle /\ ExIdle /\ MdIdle /\ RunIdle
    /\ PhaseIdle /\ HeadIdle /\ TitleIdle
SpecEnhance == InitEnhance /\ [][enhance_report_with_tps]_vars

InitPhase ==
    /\ PhaseInit /\ PatchIdle /\ AiIdle /\ RepIdle /\ CsvIdle /\ ExIdle /\ TpsIdle /\ MdIdle
    /\ ScrapeIdle /\ RunIdle /\ EnhanceIdle /\ HeadIdle /\ TitleIdle
SpecPhase == InitPhase /\ [][PhaseNext]_vars

InitHead ==
    /\ HeadInit /\ PatchIdle /\ AiIdle /\ RepIdle /\ CsvIdle /\ ExIdle /\ TpsIdle /\ MdIdle
    /\ ScrapeIdle /\ RunIdle /\ EnhanceIdle /\ PhaseIdle /\ TitleIdle
SpecHead == InitHead /\ [][HeadNext]_vars

InitTitle ==
    /\ TitleInit /\ PatchIdle /\ AiIdle /\ RepIdle /\ CsvIdle /\ ExIdle /\ TpsIdle /\ MdIdle
    /\ ScrapeIdle /\ RunIdle /\ EnhanceIdle /\ PhaseIdle /\ HeadIdle
SpecTitle == InitTitle /\ [][modify_report_title]_vars

\* The two TPS paths of the SLA driver on the example logs and a rendered report.
InitTpsPaths ==
    /\ TpsInit /\ jtl_file \in ExampleLogs
    /\ ScrapeInit
    /\ PatchIdle /\ AiIdle /\ RepIdle /\ CsvIdle /\ ExIdle /\ MdIdle /\ RunIdle /\ EnhanceIdle
    /\ PhaseIdle /\ HeadIdle /\ TitleIdle
SpecTpsPaths ==
    InitTpsPaths /\ [][calculate_tps_from_jtl \/ calculate_tps_from_html_report]_vars

\* Both TPS computations: the enhanced report's and the SLA driver's.
InitTpsBoth == InitCsv \/ InitTps
SpecTpsBoth == InitTpsBoth /\ [][CsvNext \/ TpsNext]_vars

(***************************************************************************)
(* Claims about the report patcher (SpecPatch)                             *)
(***************************************************************************)
\* The hrefs of the links of a document, and the number of its links.
Hrefs(doc) == {doc[i].h : i \in {x \in 1..Len(doc) : doc[x].k = "a"}}
Links(doc) == Cardinality({x \in 1..Len(doc) : doc[x].k = "a"})

\* Number of placeholder blocks re.sub replaces in doc, from position i.
RECURSIVE PlaceholdersFrom(_, _)
PlaceholdersFrom(doc, i) ==
    IF i > Len(doc) THEN 0
    ELSE LET e == MatchFrom(doc, i, original_ai_pattern, 1)
         IN  IF e # 0 THEN 1 + PlaceholdersFrom(doc, e)
                      ELSE PlaceholdersFrom(doc, i + 1)

\* C1: a call of update_original_report that follows a call with the same
\* report name leaves the document as that first call left it: no second
\* link is inserted and no error is raised.
C1_PatcherIdempotent ==
    \A i \in 2..Len(patchLog) :
        patchLog[i].name = patchLog[i - 1].name =>
            /\ patchLog[i].after = patchLog[i - 1].after
            /\ Links(patchLog[i].after) = Links(patchLog[i - 1].after)
            /\ ~patchLog[i].raised

\* A placeholder was patched, and the patcher ran again with the same name.
C1_Witness ==
    \E i \in 2..Len(patchLog) :
        /\ patchLog[i].name = patchLog[i - 1].name
        /\ IsUnpatched(patchLog[i - 1].before)
        /\ IsPatched(patchLog[i].before)

\* C2: a call on a document that holds the placeholder leaves a document
\* that matches the patched pattern and no longer the placeholder pattern;
\* every placeholder became one link, and the links added point at exactly
\* the report name handed in.
C2_UnpatchedBecomesPatched ==
    \A i \in 1..Len(patchLog) :
        IsUnpatched(patchLog[i].before) =>
            /\ IsPatched(patchLog[i].after)
            /\ ~IsUnpatched(patchLog[i].after)
            /\ Hrefs(patchLog[i].after) = Hrefs(patchLog[i].before) \cup {patchLog[i].name}
            /\ Links(patchLog[i].after) =
                   Links(patchLog[i].before) + PlaceholdersFrom(patchLog[i].before, 1)
            /\ ~patchLog[i].raised

\* A document with a placeholder beside a block patched for another report.
C2_Witness ==
    \E i \in 1..Len(patchLog) :
        /\ IsUnpatched(patchLog[i].before)
        /\ Hrefs(patchLog[i].before) # {}
        /\ patchLog[i].name \notin Hrefs(patchLog[i].before)
        /\ patchLog[i].name \in Hrefs(patchLog[i].after)

\* C3: a call on a document without the placeholder (already patched, or
\* neither pattern found) leaves the content as it was, whatever the name.
C3_NoPlaceholderNoChange ==
    \A i \in 1..Len(patchLog) :
        ~IsUnpatched(patchLog[i].before) =>
            /\ patchLog[i].after = patchLog[i].before
            /\ ~patchLog[i].raised

\* An already patched document, called with a different report name.
C3_Witness ==
    \E i \in 1..Len(patchLog) :
        /\ ~IsUnpatched(patchLog[i].before)
        /\ IsPatched(patchLog[i].before)
        /\ patchLog[i].name \notin Hrefs(patchLog[i].before)

(***************************************************************************)
(* Claims about the narrative call (SpecAI)                                *)
(***************************************************************************)
\* The requests of the call so far, and its waits.
Posts == SelectSeq(aiTrace, LAMBDA e : e.ev = "post")
Sleeps == SelectSeq(aiTrace, LAMBDA e : e.ev = "sleep")
LastPost == Posts[Len(Posts)]
FailedCall == aiPc = "returned" /\ Posts # <<>> /\ LastPost.out \in Failures

\* C4: AIAnalyzer.call_ai_service never posts a 4th request; when every
\* attempt timed out it posted 3 times, waited 2 s after the first and 4 s
\* after the second, did not wait after the third, and returned the local
\* placeholder narrative; before it has returned it can always take a step.
C4_RetryContract ==
    /\ Len(Posts) <= max_retries
    /\ (aiPc = "loop" => attempt < max_retries)
    /\ (aiPc \in {"ready", "loop"} => ENABLED AiNext)
    /\ (FailedCall /\ aiConfig.analyzer = 2 /\ LastPost.out = "timeout") =>
           /\ aiTrace = << Post("timeout"), Sleep(2), Post("timeout"), Sleep(4),
                           Post("timeout") >>
           /\ aiResult = Returned(get_mock_analysis)

\* Three timeouts in a row.
C4_Witness ==
    /\ FailedCall
    /\ aiConfig.analyzer = 2
    /\ Len(Posts) = 3
    /\ LastPost.out = "timeout"

C7_OneReportPerRun ==
    \A i \in 1..Len(repRuns) : repRuns[i].index # "none"

\* C8 as stated: in generate_batch_html_reports the tool's report is kept
\* when the generator exits 0 with index.html, and the enhanced report is
\* generated exactly when that did not happen, at most once per result log.
C8_EnhancedIffToolFailed ==
    repDriver = "csv_2steps" =>
        \A i \in 1..Len(repRuns) :
            /\ (repRuns[i].tool = "exit0_index" => repRuns[i].index = "tool")
            /\ (repRuns[i].enhanced_calls = 1 <=> repRuns[i].tool # "exit0_index")
            /\ repRuns[i].enhanced_calls <= 1

\* C8 amended: the enhanced report is generated exactly when the tool's
\* report did not come about and the enhanced report module was imported.
C8_EnhancedIffToolFailedAndImported ==
    repDriver = "csv_2steps" =>
        \A i \in 1..Len(repRuns) :
            /\ (repRuns[i].tool = "exit0_index" =>
                    repRuns[i].index = "tool" /\ repRuns[i].enhanced_calls = 0)
            /\ (repRuns[i].enhanced_calls = 1 <=>
                    (repRuns[i].tool # "exit0_index" /\ enhanced_module))
            /\ repRuns[i].enhanced_calls <= 1
            /\ (repRuns[i].index = "enhanced" => repRuns[i].enhanced_calls = 1)

\* One batch in which a report was kept and a timeout fell back.
C8_Witness ==
    /\ repDriver = "csv_2steps"
    /\ enhanced_module
    /\ \E i, k \in 1..Len(repRuns) :
           /\ repRuns[i].tool = "exit0_index" /\ repRuns[i].index = "tool"
           /\ repRuns[k].tool = "timeout" /\ repRuns[k].index = "enhanced"

(***************************************************************************)
(* Claims about the result log extractor (SpecCsv)                         *)
(***************************************************************************)
\* A row the claim calls well-formed: the cell count fits and elapsed,
\* bytes and sentBytes are numbers.
WellFormed(row) ==
    /\ row.ncols = Len(HeaderLine)
    /\ row.elapsed.kind = "num" /\ row.bytes.kind = "num" /\ row.sentBytes.kind = "num"

WellFormedCount(label) ==
    Cardinality({i \in DOMAIN csvFile.rows :
                    WellFormed(csvFile.rows[i]) /\ csvFile.rows[i].label = label})

\* C9 as stated: whatever rows a result log with a header holds, the
\* function returns True with the report written, and the report counts
\* exactly the well-formed rows of every label.
C9_MalformedRowsSkipped ==
    (csvPc = "returned" /\ csvFile.header) =>
        /\ csvReturn = "True"
        /\ csvReport.written
        /\ \A l \in {"A", "B"} :
               WellFormedCount(l) =
                   IF l \in DOMAIN csvReport.rows THEN csvReport.rows[l].sampleCount ELSE 0

(***************************************************************************)
(* Claims about the markup extractor (SpecExtract)                         *)
(***************************************************************************)
\* C10 as stated: whatever shape the other parts have, the result holds
\* the test info of a page that has the table and the APDEX score of a
\* dashboard.js whose APDEX block is as expected, and no exception empties
\* the result.
C10_SectionsIndependent ==
    exPc = "returned" =>
        /\ ~exRaised
        /\ (html_file.test_info # "absent" => "test_info" \in DOMAIN extracted_data.content)
        /\ (html_file.script_tag /\ html_file.js_exists /\ html_file.apdex = "full"
                => "apdex_score" \in DOMAIN extracted_data.content)

(***************************************************************************)
(* Claims about the TPS computation (SpecTps)                              *)
(***************************************************************************)
\* What the claim calls no usable timestamps: an empty file, no timestamp
\* column, or no integer in that column.
NoUsableTimestamps(f) ==
    \/ f.header = <<>>
    \/ \A i \in DOMAIN f.header : ~has_time_keyword(f.header[i])
    \/ \A r \in DOMAIN f.rows :
           \/ Len(f.rows[r]) < timestamp_col(f.header)
           \/ f.rows[r][timestamp_col(f.header)].kind # "int"

\* C11: a log that is not well-formed XML is read again as CSV; when that
\* gives no usable timestamps, or the file cannot be read, the result is
\* None.
C11_FormatFallback ==
    tpsPc = "returned" =>
        /\ (jtl_file.kind = "text" => tpsTrace.tried = <<"xml", "csv">>)
        /\ (jtl_file.kind = "text" /\ NoUsableTimestamps(jtl_file) => tps_data.none)
        /\ (jtl_file.kind = "unreadable" => tps_data.none)

\* A CSV log whose second reading gave a summary.
C11_Witness ==
    /\ tpsPc = "returned"
    /\ jtl_file.kind = "text"
    /\ tpsTrace.tried = <<"xml", "csv">>
    /\ ~tps_data.none
    /\ tps_data.total_requests = 2

(***************************************************************************)
(* Claims about the label aggregates (SpecCsv)                             *)
(***************************************************************************)
RECURSIVE SumCodes(_)
SumCodes(d) ==
    IF DOMAIN d = {} THEN 0
    ELSE LET k == CHOOSE c \in DOMAIN d : TRUE
         IN  d[k] + SumCodes([c \in DOMAIN d \ {k} |-> d[c]])

\* C12: in every label aggregate errorCount <= sampleCount, errorCount is
\* the sum of errorCodes, sampleCount the sum of both histograms, and the
\* reported errorPct lies between 0 and 100.
C12_ErrorCountsConsistent ==
    /\ \A l \in DOMAIN stats :
           /\ stats[l].errorCount <= stats[l].sampleCount
           /\ stats[l].errorCount = SumCodes(stats[l].errorCodes)
           /\ stats[l].sampleCount =
                  SumCodes(stats[l].successCodes) + SumCodes(stats[l].errorCodes)
    /\ \A l \in DOMAIN csvReport.rows :
           /\ csvReport.rows[l].errorPct.den > 0
           /\ 0 <= csvReport.rows[l].errorPct.num
           /\ csvReport.rows[l].errorPct.num <= 100 * csvReport.rows[l].errorPct.den

\* A report with a label that has a failed and a passed sample.
C12_Witness ==
    /\ csvReport.written
    /\ \E l \in DOMAIN csvReport.rows :
           /\ csvReport.rows[l].errorCount = 1
           /\ csvReport.rows[l].sampleCount = 2
           /\ csvReport.rows[l].errorPct = Frac(100, 2)

OwnTitles(name) ==
    IF name = "Statistics"
    THEN (IF html_file.statistics \in {"absent", "no_titles"} THEN <<>>
          ELSE <<"Label", "#Samples">>)
    ELSE (IF html_file.errors = "full"
          THEN <<"Type of error", "Number of errors">> ELSE <<>>)

\* C15 as stated: every row of an extracted table has exactly the keys of
\* that table's header row, and that header row is the table's own, never
\* the titles of another table.
C15_RowsKeyedByOwnHeaders ==
    \A t \in DOMAIN extracted_data.tables :
        LET table == extracted_data.tables[t]
        IN  /\ table.headers = OwnTitles(table.name)
            /\ \A r \in DOMAIN table.data :
                   DOMAIN table.data[r] = {table.headers[i] : i \in DOMAIN table.headers}

\* The maximal runs of two or more consecutive lines with '|', as <<first,
\* last>> positions, and the k-th of them in reading order.
PipeRuns ==
    {r \in (1..Len(md_lines)) \X (1..Len(md_lines)) :
        /\ r[1] < r[2]
        /\ \A i \in r[1]..r[2] : md_lines[i].k = "pipe"
        /\ r[1] = 1 \/ md_lines[r[1] - 1].k # "pipe"
        /\ r[2] = Len(md_lines) \/ md_lines[r[2] + 1].k # "pipe"}
PipeRun(k) ==
    CHOOSE r \in PipeRuns : Cardinality({q \in PipeRuns : q[1] < r[1]}) = k - 1
Tables == SelectSeq(result, LAMBDA e : e.k = "table")

\* C16 as stated: process_tables gives one table per maximal run of two or
\* more lines with '|', ended by a line without '|' or by the end of the
\* input; the first line gives the header cells, the second is left out and
\* every other line gives one body row of its non-empty fields.
C16_EveryLineOneRow ==
    mdPc \in {"lists", "returned"} =>
        /\ Len(Tables) = Cardinality(PipeRuns)
        /\ \A k \in 1..Len(Tables) :
              LET r == PipeRun(k)
              IN  /\ Tables[k].headers = md_lines[r[1]].cells
                  /\ Len(Tables[k].rows) = r[2] - r[1] - 1
                  /\ \A j \in 1..Len(Tables[k].rows) :
                        Tables[k].rows[j] = md_lines[r[1] + 1 + j].cells

\* C16 amended: one table per maximal run of two or more lines with '|',
\* ended by a line without '|' or by the end of the input; the first line
\* gives the header cells, the second is left out, and the body rows are the
\* non-empty fields of the other lines that have at least one, in order: a
\* line whose fields are all empty gives no row.
C16_OneTablePerRun ==
    mdPc \in {"lists", "returned"} =>
        /\ Len(Tables) = Cardinality(PipeRuns)
        /\ \A k \in 1..Len(Tables) :
              LET r == PipeRun(k)
                  rest == SelectSeq(SubSeq(md_lines, r[1] + 2, r[2]),
                                    LAMBDA l : l.cells # <<>>)
              IN  /\ Tables[k].headers = md_lines[r[1]].cells
                  /\ Tables[k].rows = [j \in 1..Len(rest) |-> rest[j].cells]

\* "A|B / ---|--- / 1|2" twice, the first ended by a blank line and the
\* second by the end of the input, has given two tables of one header row of
\* two cells and one body row of two cells.
C16_Witness ==
    /\ mdPc = "returned"
    /\ Len(md_lines) = 7
    /\ PipeRuns = {<<1, 3>>, <<5, 7>>}
    /\ Len(Tables) = 2
    /\ \A k \in 1..2 : /\ Tables[k].headers = <<"A", "B">>
                       /\ Tables[k].rows = << <<"1", "2">> >>

\* The maximal runs of consecutive list lines of one kind, as handed to the
\* list substitutions, counted by their first lines.
IsItem(e, kind) == e.k = "line" /\ e.line.k = kind
ListRuns(kind) ==
    {a \in 1..Len(result) :
        IsItem(result[a], kind) /\ (a = 1 \/ ~IsItem(result[a - 1], kind))}
Count(tok) == Cardinality({i \in 1..Len(mdHtml) : mdHtml[i] = tok})

\* C17: every maximal run of '- ' lines is wrapped in exactly one <ul>,
\* every maximal run of 'N. ' lines in exactly one <ol>, and an unordered
\* item is never wrapped in an <ol> as well.
C17_OneContainerPerRun ==
    mdPc = "returned" =>
        /\ Count("<ul>") = Cardinality(ListRuns("ul"))
        /\ Count("<ol>") = Cardinality(ListRuns("ol"))
        /\ \A i \in 1..(Len(mdHtml) - 1) :
              ~(mdHtml[i] = "<ul>" /\ mdHtml[i + 1] = "<ol>")

\* The samples of a result log.
SampleCount(file) == IF file.kind = "xml" THEN Len(file.elems) ELSE Len(file.rows)

\* C18: when the request counts rendered in the report sum to the number of
\* samples of the result log, the summary scraped from the report and the
\* summary computed from the log have the same total_requests,
\* test_duration_seconds and average_tps.
C18_PathsAgree ==
    ( /\ tpsPc = "returned" /\ ~tps_data.none
      /\ htmlPc = "returned" /\ ~html_tps.none
      /\ html_report.pages # <<>>
      /\ SumSeq(html_report.pages) = SampleCount(jtl_file) ) =>
        /\ html_tps.total_requests = tps_data.total_requests
        /\ html_tps.test_duration_seconds = tps_data.test_duration_seconds
        /\ html_tps.average_tps = tps_data.average_tps

\* The XML log whose samples carry ts = 1000, 2000, 3000.
ExampleXml ==
    JtlFile("xml", [i \in 1..3 |-> Elem("httpSample", OneAttr("ts", IntText(BigOf(i * 1000))))],
            <<>>, <<>>)

\* C19: the XML path never takes timestamps as seconds: whichever branch of
\* the unit detection ran, it set the millisecond reading and the buckets
\* are the timestamps divided by 1000; the log with ts = 1000, 2000, 3000
\* gives the seconds 1, 2, 3, three requests and a duration of 3.
C19_XmlAlwaysMilliseconds ==
    (tpsPc = "returned" /\ jtl_file.kind = "xml" /\ ~tps_data.none) =>
        LET timestamps == xml_timestamps(jtl_file.elems)
        IN  /\ is_milliseconds(tpsTrace.branch)
            /\ DOMAIN tps_data.tps_by_second =
                   {BigDiv1000(timestamps[i]) : i \in DOMAIN timestamps}
            /\ tps_data.total_requests = Len(timestamps)
            /\ jtl_file = ExampleXml =>
                   /\ DOMAIN tps_data.tps_by_second = {BigOf(1), BigOf(2), BigOf(3)}
                   /\ tps_data.total_requests = 3
                   /\ tps_data.test_duration_seconds = BigOf(3)

\* calculate_tps_from_jtl has returned the summary of the log with
\* ts = 1000, 2000, 3000, found in milliseconds by the range of the values.
C19_Witness ==
    /\ tpsPc = "returned"
    /\ jtl_file = ExampleXml
    /\ tpsTrace.branch = "range_ms"
    /\ tps_data.total_requests = 3
    /\ tps_data.test_duration_seconds = BigOf(3)

\* C20: no dangling link: in both analyzers a step changes the summary
\* document only when the companion report has been written in full, and
\* then to the document patched with the name of that report; when the
\* report could not be synthesized or written the document stays as it was.
C20_NoDanglingLink ==
    [][ /\ summaryDoc' # summaryDoc =>
            /\ ai_report.written = "full"
            /\ summaryDoc' = new_content(summaryDoc, ai_report.name)
        /\ (runPc' = "returned" /\ ai_report.written # "full") =>
            summaryDoc' = summaryDoc ]_vars

\* Analyzer 2 could not write the companion report, update_original_report
\* was called all the same, and the summary document is still Unpatched.
C20_Witness ==
    /\ runPc = "returned"
    /\ run.analyzer = 2
    /\ run.fault = "write"
    /\ ai_report.written = "partial"
    /\ Len(patchLog) = 1 /\ patchLog[1].raised
    /\ IsUnpatched(summaryDoc) /\ ~IsPatched(summaryDoc)

\* The sample elements of an XML log, and those with a timestamp attribute
\* that int() takes.
SampleElems(file) ==
    {i \in DOMAIN file.elems : file.elems[i].tag \in {"sample", "httpSample"}}
Stamped(file) ==
    {i \in SampleElems(file) :
        \E a \in DOMAIN file.elems[i].attrib :
            /\ \E k \in DOMAIN timestamp_attributes : timestamp_attributes[k] = a
            /\ file.elems[i].attrib[a].kind = "int"}
BothAttrs ==
    Elem("sample", [a \in {"ts", "t"} |->
                       IF a = "ts" THEN IntText(BigOf(1000)) ELSE IntText(BigOf(2000))])

\* C21: each sample / httpSample element gives at most one timestamp, so
\* total_requests counts the sample elements that have a timestamp attribute
\* int() takes and never exceeds the number of sample elements; an element
\* with ts and t is counted once, under ts.
C21_OneTimestampPerSample ==
    (tpsPc = "returned" /\ jtl_file.kind = "xml") =>
        /\ tps_data.total_requests = Cardinality(Stamped(jtl_file))
        /\ tps_data.total_requests <= Cardinality(SampleElems(jtl_file))
        /\ tps_data.none <=> Stamped(jtl_file) = {}
        /\ jtl_file.elems = <<BothAttrs>> =>
               DOMAIN tps_data.tps_by_second = {BigOf(1)}

\* A log of one sample that carries ts = 1000 and t = 2000 has given one
\* request, in second 1.
C21_Witness ==
    /\ tpsPc = "returned"
    /\ jtl_file.kind = "xml"
    /\ jtl_file.elems = <<BothAttrs>>
    /\ tps_data.total_requests = 1
    /\ DOMAIN tps_data.tps_by_second = {BigOf(1)}

\* C22: enhance_report_with_tps scrapes the rendered report only when the
\* result log gave nothing; data from the log is what is added when there
\* is any; and when both give nothing the report is not written and False
\* is returned.
C22_HtmlOnlyAfterJtlFailed ==
    tpsBlock.pc = "returned" =>
        /\ htmlPc = "returned" <=> tps_data.none
        /\ ~tps_data.none => (tpsBlock.written => tpsBlock.added = tps_data)
        /\ (tps_data.none /\ tpsBlock.written) => tpsBlock.added = html_tps
        /\ (tps_data.none /\ html_tps.none) =>
               (~tpsBlock.written /\ tpsBlock.ret = "False")

\* The log gave nothing, the rendered report was scraped and its summary
\* was added to the report.
C22_Witness ==
    /\ tpsBlock.pc = "returned"
    /\ tps_data.none
    /\ htmlPc = "returned" /\ ~html_tps.none
    /\ tpsBlock.written /\ tpsBlock.added = html_tps /\ tpsBlock.ret = "True"

\* C23: for every row of the 'Test and Report information' table that has a
\* key cell followed by a value cell, test_info maps the text of the first
\* cell to the text of the second, in the order of the rows.
C23_TestInfoKeyToValue ==
    (exPc = "returned" /\ ~exRaised /\ html_file.test_info # "absent") =>
        LET rows == SelectSeq(TestInfoTables[html_file.test_info],
                              LAMBDA r : Len(r) >= 2)
        IN  extracted_data.content["test_info"] =
                [i \in 1..Len(rows) |-> [key |-> rows[i][1], value |-> rows[i][2]]]

\* The summary the CSV path gives for a log with the same timestamps, one
\* per row under a timeStamp column.
CsvOfSame(timestamps) ==
    calculate_tps_from_csv_jtl(<<"timeStamp", "elapsed", "label">>,
        [i \in DOMAIN timestamps |->
            <<IntText(timestamps[i]), IntText(BigOf(2000)), NonIntText>>])

\* C24: for the same integer timestamps the CSV path and the XML path give
\* the same total_requests, per-second buckets, test_duration_seconds and
\* average_tps, and the duration of the CSV path spans its buckets.
C24_CsvEqualsXml ==
    (tpsPc = "returned" /\ jtl_file.kind = "xml" /\ ~tps_data.none) =>
        LET csv == CsvOfSame(xml_timestamps(jtl_file.elems))
        IN  /\ ~csv.none
            /\ csv.total_requests = tps_data.total_requests
            /\ csv.tps_by_second = tps_data.tps_by_second
            /\ csv.test_duration_seconds = tps_data.test_duration_seconds
            /\ csv.average_tps = tps_data.average_tps
            /\ csv.test_duration_seconds =
                   BigInc(BigSub(BigMax(DOMAIN csv.tps_by_second),
                                 BigMin(DOMAIN csv.tps_by_second)))

\* C25: every summary the XML path or the CSV path returns has
\* min_tps <= average_tps <= peak_tps (the average in hundredths), a
\* duration of at least one second, and bucket counts that sum to
\* total_requests.
C25_MinAvgPeakOrdered ==
    (tpsPc = "returned" /\ ~tps_data.none) =>
        /\ tps_data.min_tps * 100 <= tps_data.average_tps
        /\ tps_data.average_tps <= tps_data.peak_tps * 100
        /\ BigLe(BigOf(1), tps_data.test_duration_seconds)
        /\ SumCodes(tps_data.tps_by_second) = tps_data.total_requests

EventsOf(ev) == SelectSeq(phTrace, LAMBDA e : e.ev = ev)
PositionsOf(ev) == {i \in DOMAIN phTrace : phTrace[i].ev = ev}

\* C26: in both two-phase drivers every test has run before the first
\* report is generated, the tests run in ascending order of their numeric
\* prefix with a wait only between two tests, and reports are generated for
\* exactly the result logs of the tests judged successful.
C26_ReportsOnlyForSuccessfulTests ==
    phPc = "done" =>
        /\ \A i \in PositionsOf("test"), j \in PositionsOf("report") : i < j
        /\ [i \in DOMAIN EventsOf("test") |-> EventsOf("test")[i].plan] = jmx_files
        /\ \A i \in DOMAIN EventsOf("test") : i > 1 =>
               number_prefix(EventsOf("test")[i - 1].plan)
                   <= number_prefix(EventsOf("test")[i].plan)
        /\ \A i \in PositionsOf("sleep") :
               /\ i > 1 /\ phTrace[i - 1].ev = "test"
               /\ i < Len(phTrace) /\ phTrace[i + 1].ev = "test"
        /\ Cardinality(PositionsOf("sleep")) =
               (IF jmx_files = <<>> THEN 0 ELSE Len(jmx_files) - 1)
        /\ {phTrace[i].plan : i \in PositionsOf("report")} =
               {successful_tests[i] : i \in DOMAIN successful_tests}

\* C27: in one run of the csv_2steps driver generate_report_summary is
\* called at most once, and only after every report of the batch.
C27_SummaryAtMostOnce ==
    phase.driver = "csv_2steps" =>
        /\ Cardinality(PositionsOf("summary")) <= 1
        /\ \A i \in PositionsOf("summary"), j \in PositionsOf("report") : j < i
        /\ \A i \in PositionsOf("summary") : to_report = {}

OtherLines == SelectSeq(md_lines, LAMBDA l : l.k # "pipe")
KeptLines == SelectSeq(result, LAMBDA e : e.k = "line")

\* C28: process_tables loses no text: the lines without '|' are in the
\* output unchanged and in their order, and every line with '|' is in the
\* output as part of a table or as itself, a single such line between two
\* lines without '|' included.
C28_NoLineLost ==
    mdPc \in {"lists", "returned"} =>
        /\ [i \in DOMAIN KeptLines |-> KeptLines[i].line] = OtherLines
        /\ \A i \in DOMAIN md_lines : md_lines[i].k = "pipe" =>
              \/ \E r \in PipeRuns : i \in r[1]..r[2]
              \/ \E j \in DOMAIN result : result[j] = AsLine(md_lines[i])

(***************************************************************************)
(* Claims about the headings of the companion report (SpecHead)            *)
(***************************************************************************)
\* The number of '#' from position i on, and the heading lines of a
\* narrative: a line that begins with one, two or three '#' and a blank.
RECURSIVE HashesAt(_, _)
HashesAt(s, i) == IF i <= Len(s) /\ s[i] = "#" THEN 1 + HashesAt(s, i + 1) ELSE 0
IsHeadingAt(s, i) ==
    /\ i = 1 \/ s[i - 1] = "\n"
    /\ HashesAt(s, i) \in 1..3
    /\ i + HashesAt(s, i) <= Len(s)
    /\ s[i + HashesAt(s, i)] = " "
HeadingStarts(s) == {i \in DOMAIN s : IsHeadingAt(s, i)}
RECURSIVE HeadingTags(_, _)
HeadingTags(s, i) ==
    IF i > Len(s) THEN <<>>
    ELSE (IF IsHeadingAt(s, i)
          THEN << <<"<h3>", "<h4>", "<h5>">>[HashesAt(s, i)] >> ELSE <<>>)
         \o HeadingTags(s, i + 1)
OnlyHeadingHashes(s) ==
    \A j \in DOMAIN s : s[j] = "#" =>
        \E i \in HeadingStarts(s) : j \in i..(i + HashesAt(s, i) - 1)
TagsOf(s) == SelectSeq(s, LAMBDA c : c \in {"<h3>", "<h4>", "<h5>"})

\* C29: a narrative line that begins with '# ', '## ' or '### ' is rendered
\* with h3, h4 or h5 respectively; the order of the substitutions never
\* gives a '## ' or '### ' line the tag of '# '.
C29_ThreeHeadingLevels ==
    (headPc = "headings_done" /\ OnlyHeadingHashes(strip(analysis_result))) =>
        /\ TagsOf(processed_analysis) = HeadingTags(strip(analysis_result), 1)
        /\ \A i \in DOMAIN processed_analysis : processed_analysis[i] # "#"

(***************************************************************************)
(* Claims about the report title (SpecTitle)                               *)
(***************************************************************************)
\* Whether a page has a title element, and the content of its first one.
TitleStarts(page) ==
    {i \in DOMAIN page : page[i] = "<title>" /\ title_end(SubSeq(page, i, Len(page))) # 0}
title_content(page) ==
    LET i == SetMin(TitleStarts(page))
    IN  SubSeq(page, i + 1, i + title_end(SubSeq(page, i, Len(page))) - 2)

\* C30: after a successful call on a report with a title element the title
\* is exactly '{test_name} - Load Test Report', with the test name once, and
\* a second call with the same test name leaves the document as it is.
C30_TitleOnceAndIdempotent ==
    \A i \in DOMAIN titleCalls :
        (titleCalls[i].ret /\ TitleStarts(titleCalls[i].before) # {}) =>
            /\ TitleStarts(titleCalls[i].after) # {}
            /\ title_content(titleCalls[i].after) = <<"test_name", " - ", "Load Test Report">>
            /\ (i > 1 /\ titleCalls[i - 1].ret) => titleCalls[i].after = titleCalls[i].before

====
